---------------------------- MODULE Spec2Model ----------------------------
(***************************************************************************)
(* A model of src/src/error_handling.py and src/src/cost_tracker.py:       *)
(*   - the circuit breaker built by create_circuit_breaker (lines 163-229) *)
(*   - the retry wrapper of retry_with_exponential_backoff (lines 41-99)   *)
(*   - CostTracker and TokenUsage.cost_estimate of cost_tracker.py         *)
(*                                                                         *)
(* Time is the integer reading of time.time().  One breaker instance is    *)
(* shared by the callers in Callers; each caller runs the code of wrapper  *)
(* one statement at a time, so that the interleavings of callers that use  *)
(* the breaker without a lock are behaviours of the model.                 *)
(***************************************************************************)
EXTENDS Integers, Sequences, FiniteSets, TLC

(***************************************************************************)
(* Bounds of the model.                                                    *)
(***************************************************************************)
MaxThreshold == 2
MaxTimeout == 2
MaxTime == 4
MaxFailures == 4
NumCallers == 2
MaxRetries == 2
MaxBaseDelay == 2
MaxMaxDelay == 3
MaxExpNum == 4
ExpDen == 2
JitterSteps == 4
MaxRecords == 2
MaxCandidates == 2
NumRecorders == 2

\* self.last_failure_time = None
NoTime == -1

Callers == 1..NumCallers
\* The caller of the one-caller-at-a-time specification.
SeqCallers == {1}

VARIABLES
  \* create_circuit_breaker's parameters
  failure_threshold, timeout,
  \* the CircuitBreaker instance
  failure_count, last_failure_time, state,
  \* time.time()
  now,
  \* each caller's position in wrapper, and the value it loaded for "+= 1"
  pc, loaded,
  \* history: the breaker as each caller's current (or last) call found it, whether
  \* that call invoked func, when func raised, and how the call ended
  pre, ran, raisedAt, res,
  \* history: matching failures counted since the last success, and the number
  \* of consecutive calls ended by a matching failure, begun at CLOSED with count 0
  sinceOk, streak,
  \* retry_with_exponential_backoff's parameters; exponential_base is the
  \* rational exponential_base / ExpDen
  max_retries, base_delay, max_delay, exponential_base, jitter,
  \* wrapper's locals: the loop variable, last_exception, delay, and its position
  attempt, last_exception, delay, rpc,
  \* what wrapper returned, and the exception that left it
  result, raised,
  \* history: the outcome of each invocation of func, and the delay of each sleep
  outcomes, waits,
  \* the CostTracker instance; _total_cost in units of 1e-11 USD
  usage_history, _total_prompt_tokens, _total_completion_tokens, _total_cost,
  \* history: the tracker operation called last, its response argument and
  \* how it ended; for add_usage its local usage, for reset the number of
  \* records it cleared, for export_to_json the document it wrote
  op,
  \* history: the call made last of handle_safety_block, safe_generate or one of
  \* the functions that make a retry decorator, with its arguments and its end
  call,
  \* threads that share the CostTracker: each one's position in add_usage, its
  \* local usage, and the value it loaded for "+="
  rec_pc, rec_usage, rec_loaded,
  \* the CircuitBreaker instance of each call of create_circuit_breaker
  breakers

cbVars == <<failure_threshold, timeout, failure_count, last_failure_time, state,
            now, pc, loaded, pre, ran, raisedAt, res, sinceOk, streak>>

rtVars == <<max_retries, base_delay, max_delay, exponential_base, jitter,
            attempt, last_exception, delay, rpc, result, raised, outcomes, waits>>

ctVars == <<usage_history, _total_prompt_tokens, _total_completion_tokens,
            _total_cost, op>>

hpVars == <<call>>

ccVars == <<rec_pc, rec_usage, rec_loaded>>

mbVars == <<breakers>>

\* Variables of the other components; a breaker step leaves them alone.
notCbVars == <<rtVars, ctVars, hpVars, ccVars, mbVars>>

\* Variables of the other components; a step of the retry wrapper leaves them alone.
notRtVars == <<cbVars, ctVars, hpVars, ccVars, mbVars>>

\* Variables of the other components; a tracker operation leaves them alone.
notCtVars == <<cbVars, rtVars, hpVars, ccVars, mbVars>>

\* Variables of the other components; a call of a static helper leaves them alone.
notHpVars == <<cbVars, rtVars, ctVars, ccVars, mbVars>>

vars == <<cbVars, rtVars, ctVars, hpVars, ccVars, mbVars>>

Min(a, b) == IF a <= b THEN a ELSE b

States == {"CLOSED", "OPEN", "HALF_OPEN"}

Outcomes == {"none", "ok", "raised_match", "raised_other", "circuit_open"}

\* What a call finds on entry (history only).
Snapshot ==
  [state |-> state, failure_count |-> failure_count,
   last_failure_time |-> last_failure_time, now |-> now, streak |-> streak,
   admitted |-> "none"]

NoSnapshot ==
  [state |-> "CLOSED", failure_count |-> 0, last_failure_time |-> NoTime,
   now |-> 0, streak |-> 0, admitted |-> "none"]

InitBreakerWith(ft, to) ==
  /\ failure_threshold = ft
  /\ timeout = to
  /\ failure_count = 0
  /\ last_failure_time = NoTime
  /\ state = "CLOSED"
  /\ now = 0
  /\ pc = [t \in Callers |-> "idle"]
  /\ loaded = [t \in Callers |-> 0]
  /\ pre = [t \in Callers |-> NoSnapshot]
  /\ ran = [t \in Callers |-> FALSE]
  /\ raisedAt = [t \in Callers |-> NoTime]
  /\ res = [t \in Callers |-> "none"]
  /\ sinceOk = 0
  /\ streak = 0

InitBreaker ==
  \E ft \in 1..MaxThreshold, to \in 0..MaxTimeout : InitBreakerWith(ft, to)

\* Mutant: the OPEN window lasts one time unit longer than timeout.
TimeoutElapsedLate == now - last_failure_time > timeout + 1

\* time.time() - self.last_failure_time > timeout
TimeoutElapsed == now - last_failure_time > timeout

\* Mutant: the transition OPEN -> HALF_OPEN resets the count.
AdmitResets(t, st) ==
  /\ state' = st
  /\ pc' = [pc EXCEPT ![t] = "invoke"]
  /\ pre' = [pre EXCEPT ![t] = [Snapshot EXCEPT !.admitted = st]]
  /\ failure_count' = IF state = "OPEN" THEN 0 ELSE failure_count
  /\ UNCHANGED <<last_failure_time, res, streak>>

\* The call goes on to func, the breaker in state st.
Admit(t, st) ==
  /\ state' = st
  /\ pc' = [pc EXCEPT ![t] = "invoke"]
  /\ pre' = [pre EXCEPT ![t] = [Snapshot EXCEPT !.admitted = st]]
  /\ UNCHANGED <<failure_count, last_failure_time, res, streak>>

\* Mutant: a rejected call restarts the OPEN window.
RejectRestartsWindow(t) ==
  /\ pc' = pc
  /\ pre' = [pre EXCEPT ![t] = [Snapshot EXCEPT !.admitted = "OPEN"]]
  /\ res' = [res EXCEPT ![t] = "circuit_open"]
  /\ streak' = 0
  /\ last_failure_time' = now
  /\ UNCHANGED <<state, failure_count>>

\* raise Exception("Circuit breaker OPEN. ...")
Reject(t) ==
  /\ pc' = pc
  /\ pre' = [pre EXCEPT ![t] = [Snapshot EXCEPT !.admitted = "OPEN"]]
  /\ res' = [res EXCEPT ![t] = "circuit_open"]
  /\ streak' = 0
  /\ UNCHANGED <<state, failure_count, last_failure_time>>

\* Mutant: an OPEN breaker rejects every call, whatever time has passed.
CallEnterRejectsOpen(t) ==
  /\ pc[t] = "idle"
  /\ IF state = "OPEN" THEN Reject(t) ELSE Admit(t, state)
  /\ ran' = [ran EXCEPT ![t] = FALSE]
  /\ raisedAt' = [raisedAt EXCEPT ![t] = NoTime]
  /\ UNCHANGED <<failure_threshold, timeout, now, loaded, sinceOk>>
  /\ UNCHANGED notCbVars

\* wrapper, up to the try: the lazy OPEN -> HALF_OPEN transition or the rejection.
CallEnter(t) ==
  /\ pc[t] = "idle"
  /\ IF state = "OPEN"
       THEN IF TimeoutElapsed THEN Admit(t, "HALF_OPEN") ELSE Reject(t)
       ELSE Admit(t, state)
  /\ ran' = [ran EXCEPT ![t] = FALSE]
  /\ raisedAt' = [raisedAt EXCEPT ![t] = NoTime]
  /\ UNCHANGED <<failure_threshold, timeout, now, loaded, sinceOk>>
  /\ UNCHANGED notCbVars

\* Failures in flight: raised by func, not yet counted.
InFlight == Cardinality({u \in Callers : pc[u] \in {"ex_load", "ex_store"}})

\* Mutant: an exception that does not match is counted as a failure too.
CallInvokeCountsAll(t) ==
  /\ pc[t] = "invoke"
  /\ ran' = [ran EXCEPT ![t] = TRUE]
  /\ \/ /\ pc' = [pc EXCEPT ![t] = "ok_check"]
        /\ UNCHANGED <<res, streak, raisedAt, failure_count>>
     \/ /\ failure_count + InFlight < MaxFailures
        /\ pc' = [pc EXCEPT ![t] = "ex_load"]
        /\ raisedAt' = [raisedAt EXCEPT ![t] = now]
        /\ UNCHANGED <<res, streak, failure_count>>
     \/ /\ pc' = [pc EXCEPT ![t] = "idle"]
        /\ res' = [res EXCEPT ![t] = "raised_other"]
        /\ streak' = 0
        /\ failure_count' = failure_count + 1
        /\ UNCHANGED raisedAt
  /\ UNCHANGED <<failure_threshold, timeout, last_failure_time,
                 state, now, loaded, pre, sinceOk>>
  /\ UNCHANGED notCbVars

\* result = func(*args, **kwargs): it returns, raises an exception that matches
\* expected_exception, or raises one that does not (which propagates at once).
CallInvoke(t) ==
  /\ pc[t] = "invoke"
  /\ ran' = [ran EXCEPT ![t] = TRUE]
  /\ \/ /\ pc' = [pc EXCEPT ![t] = "ok_check"]
        /\ UNCHANGED <<res, streak, raisedAt>>
     \/ /\ failure_count + InFlight < MaxFailures
        /\ pc' = [pc EXCEPT ![t] = "ex_load"]
        /\ raisedAt' = [raisedAt EXCEPT ![t] = now]
        /\ UNCHANGED <<res, streak>>
     \/ /\ pc' = [pc EXCEPT ![t] = "idle"]
        /\ res' = [res EXCEPT ![t] = "raised_other"]
        /\ streak' = 0
        /\ UNCHANGED raisedAt
  /\ UNCHANGED <<failure_threshold, timeout, failure_count, last_failure_time,
                 state, now, loaded, pre, sinceOk>>
  /\ UNCHANGED notCbVars

\* Mutant: a success never closes the circuit.
SuccessCheckNoClose(t) ==
  /\ pc[t] = "ok_check"
  /\ pc' = [pc EXCEPT ![t] = "ok_reset"]
  /\ UNCHANGED <<failure_threshold, timeout, failure_count, last_failure_time,
                 state, now, loaded, pre, ran, raisedAt, res, sinceOk, streak>>
  /\ UNCHANGED notCbVars

\* if self.state == "HALF_OPEN":
SuccessCheck(t) ==
  /\ pc[t] = "ok_check"
  /\ pc' = [pc EXCEPT ![t] = IF state = "HALF_OPEN" THEN "ok_close" ELSE "ok_reset"]
  /\ UNCHANGED <<failure_threshold, timeout, failure_count, last_failure_time,
                 state, now, loaded, pre, ran, raisedAt, res, sinceOk, streak>>
  /\ UNCHANGED notCbVars

\* self.state = "CLOSED"
SuccessClose(t) ==
  /\ pc[t] = "ok_close"
  /\ state' = "CLOSED"
  /\ pc' = [pc EXCEPT ![t] = "ok_reset"]
  /\ UNCHANGED <<failure_threshold, timeout, failure_count, last_failure_time,
                 now, loaded, pre, ran, raisedAt, res, sinceOk, streak>>
  /\ UNCHANGED notCbVars

\* Mutant: the count is reset only by the success that closes a HALF_OPEN circuit
\* ("self.failure_count = 0" indented under the if).
SuccessResetHalfOpenOnly(t) ==
  /\ pc[t] = "ok_reset"
  /\ failure_count' = IF pre[t].admitted = "HALF_OPEN" THEN 0 ELSE failure_count
  /\ sinceOk' = 0
  /\ streak' = 0
  /\ pc' = [pc EXCEPT ![t] = "idle"]
  /\ res' = [res EXCEPT ![t] = "ok"]
  /\ UNCHANGED <<failure_threshold, timeout, last_failure_time, state, now,
                 loaded, pre, ran, raisedAt>>
  /\ UNCHANGED notCbVars

\* self.failure_count = 0; return result
SuccessReset(t) ==
  /\ pc[t] = "ok_reset"
  /\ failure_count' = 0
  /\ sinceOk' = 0
  /\ streak' = 0
  /\ pc' = [pc EXCEPT ![t] = "idle"]
  /\ res' = [res EXCEPT ![t] = "ok"]
  /\ UNCHANGED <<failure_threshold, timeout, last_failure_time, state, now,
                 loaded, pre, ran, raisedAt>>
  /\ UNCHANGED notCbVars

\* self.failure_count += 1, the read
ExceptLoad(t) ==
  /\ pc[t] = "ex_load"
  /\ loaded' = [loaded EXCEPT ![t] = failure_count]
  /\ pc' = [pc EXCEPT ![t] = "ex_store"]
  /\ UNCHANGED <<failure_threshold, timeout, failure_count, last_failure_time,
                 state, now, pre, ran, raisedAt, res, sinceOk, streak>>
  /\ UNCHANGED notCbVars

\* self.failure_count += 1, the write
ExceptStore(t) ==
  /\ pc[t] = "ex_store"
  /\ failure_count' = loaded[t] + 1
  /\ sinceOk' = sinceOk + 1
  /\ pc' = [pc EXCEPT ![t] = "ex_time"]
  /\ UNCHANGED <<failure_threshold, timeout, last_failure_time, state, now,
                 loaded, pre, ran, raisedAt, res, streak>>
  /\ UNCHANGED notCbVars

\* Mutant: only a failure in CLOSED records its time.
ExceptTimeClosedOnly(t) ==
  /\ pc[t] = "ex_time"
  /\ last_failure_time' = IF state = "CLOSED" THEN now ELSE last_failure_time
  /\ pc' = [pc EXCEPT ![t] = "ex_check"]
  /\ UNCHANGED <<failure_threshold, timeout, failure_count, state, now, loaded,
                 pre, ran, raisedAt, res, sinceOk, streak>>
  /\ UNCHANGED notCbVars

\* self.last_failure_time = time.time()
ExceptTime(t) ==
  /\ pc[t] = "ex_time"
  /\ last_failure_time' = now
  /\ pc' = [pc EXCEPT ![t] = "ex_check"]
  /\ UNCHANGED <<failure_threshold, timeout, failure_count, state, now, loaded,
                 pre, ran, raisedAt, res, sinceOk, streak>>
  /\ UNCHANGED notCbVars

\* The streak after one more call ended by a matching failure.
NextStreak(t) ==
  IF pre[t].state = "CLOSED" /\ pre[t].failure_count = 0 THEN 1
  ELSE IF streak > 0 THEN Min(streak + 1, MaxFailures + 1)
  ELSE 0

\* raise (the matching exception propagates)
Reraise(t) ==
  /\ pc' = [pc EXCEPT ![t] = "idle"]
  /\ res' = [res EXCEPT ![t] = "raised_match"]
  /\ streak' = NextStreak(t)

\* Mutant: the circuit opens one failure late.
ThresholdReachedStrict == failure_count > failure_threshold

\* if self.failure_count >= failure_threshold:
ThresholdReached == failure_count >= failure_threshold

ExceptCheck(t) ==
  /\ pc[t] = "ex_check"
  /\ IF ThresholdReached
       THEN /\ pc' = [pc EXCEPT ![t] = "ex_open"]
            /\ UNCHANGED <<res, streak>>
       ELSE Reraise(t)
  /\ UNCHANGED <<failure_threshold, timeout, failure_count, last_failure_time,
                 state, now, loaded, pre, ran, raisedAt, sinceOk>>
  /\ UNCHANGED notCbVars

\* Mutant: the threshold reached, the exception is re-raised and the state
\* left as it was.
ExceptOpenStaysClosed(t) ==
  /\ pc[t] = "ex_open"
  /\ state' = state
  /\ Reraise(t)
  /\ UNCHANGED <<failure_threshold, timeout, failure_count, last_failure_time,
                 now, loaded, pre, ran, raisedAt, sinceOk>>
  /\ UNCHANGED notCbVars

\* self.state = "OPEN"; raise
ExceptOpen(t) ==
  /\ pc[t] = "ex_open"
  /\ state' = "OPEN"
  /\ Reraise(t)
  /\ UNCHANGED <<failure_threshold, timeout, failure_count, last_failure_time,
                 now, loaded, pre, ran, raisedAt, sinceOk>>
  /\ UNCHANGED notCbVars

\* time.time() advances; nothing of the breaker runs on a timer.
Tick ==
  /\ now < MaxTime
  /\ now' = now + 1
  /\ UNCHANGED <<failure_threshold, timeout, failure_count, last_failure_time,
                 state, pc, loaded, pre, ran, raisedAt, res, sinceOk, streak>>
  /\ UNCHANGED notCbVars

(***************************************************************************)
(* The retry wrapper of retry_with_exponential_backoff.  An exception of   *)
(* func is its message, a sequence of characters; delays are counted in    *)
(* units of 1 / (DelayScale * 2 * JitterSteps) seconds, in which every    *)
(* delay the code can compute from the parameters is an integer.           *)
(***************************************************************************)
RECURSIVE Pow(_, _)
Pow(b, e) == IF e <= 0 THEN 1 ELSE b * Pow(b, e - 1)

\* The values func returns.
Values == {"v1", "v2"}

\* str(e) of the exceptions func raises.
Messages ==
  { <<"4", "2", "9">>,
    <<"5", "0", "3">>,
    <<"4", "0", "1">>,
    <<"H", "T", "T", "P", " ", "4", "0", "4">>,
    <<"I", "n", "v", "a", "l", "i", "d", " ", "A", "P", "I", " ", "K", "e", "y">>,
    <<"r", "e", "t", "r", "y", " ", "i", "n", " ", "4", "0", "3", "0", "m", "s">> }

\* str.lower(), one character
LowerChar(c) ==
  CASE c = "A" -> "a" [] c = "G" -> "g" [] c = "H" -> "h" [] c = "I" -> "i"
    [] c = "K" -> "k"
    [] c = "P" -> "p" [] c = "T" -> "t" [] OTHER -> c

\* str(e).lower()
Lower(s) == [i \in 1..Len(s) |-> LowerChar(s[i])]

\* x in error_msg
Contains(s, x) ==
  \E i \in 1..(Len(s) - Len(x) + 1) : SubSeq(s, i, i + Len(x) - 1) = x

\* ['invalid api key', '401', '403', '404']
NonRetryableMarkers ==
  { <<"i", "n", "v", "a", "l", "i", "d", " ", "a", "p", "i", " ", "k", "e", "y">>,
    <<"4", "0", "1">>, <<"4", "0", "3">>, <<"4", "0", "4">> }

\* Mutant: the markers are looked up in str(e), not in str(e).lower().
NonRetryableCaseSensitive(m) == \E x \in NonRetryableMarkers : Contains(m, x)

\* any(x in error_msg for x in [...]) on error_msg = str(e).lower()
NonRetryable(m) == \E x \in NonRetryableMarkers : Contains(Lower(m), x)

\* last_exception = None
NoException == [msg |-> <<>>, attempt |-> -1, kind |-> "None"]

\* "raise last_exception" with last_exception None: a TypeError
TypeErrorRaised == [msg |-> <<>>, attempt |-> -1, kind |-> "TypeError"]

\* The number of units in a second is DelayScale * 2 * JitterSteps.
DelayScale == Pow(ExpDen, MaxRetries)

\* Mutant: the exponent is attempt + 1.
BackoffFromOne(a) ==
  Min(base_delay * Pow(exponential_base, a + 1) * Pow(ExpDen, MaxRetries - (a + 1)),
      max_delay * DelayScale)

\* min(base_delay * (exponential_base ** attempt), max_delay), in 1/DelayScale s
Backoff(a) ==
  Min(base_delay * Pow(exponential_base, a) * Pow(ExpDen, MaxRetries - a),
      max_delay * DelayScale)

\* delay * (0.5 + random.random()), random.random() = q / JitterSteps
Jittered(d, q) == d * (JitterSteps + 2 * q)

\* The delay without jitter.
Unjittered(d) == d * 2 * JitterSteps

InitRetryWith(mr, bd, md, eb, ji) ==
  /\ max_retries = mr
  /\ base_delay = bd
  /\ max_delay = md
  /\ exponential_base = eb
  /\ jitter = ji
  /\ attempt = 0
  /\ last_exception = NoException
  /\ delay = 0
  /\ rpc = "idle"
  /\ result = "none"
  /\ raised = NoException
  /\ outcomes = <<>>
  /\ waits = <<>>

InitRetry ==
  \E mr \in (-1)..MaxRetries, bd \in 0..MaxBaseDelay, md \in 1..MaxMaxDelay,
     eb \in 1..MaxExpNum, ji \in BOOLEAN :
    InitRetryWith(mr, bd, md, eb, ji)

\* wrapper(*args, **kwargs) is called: last_exception = None, the loop begins.
RetryCall ==
  /\ rpc \in {"idle", "returned", "raised"}
  /\ rpc' = "for"
  /\ attempt' = 0
  /\ last_exception' = NoException
  /\ delay' = 0
  /\ result' = "none"
  /\ raised' = NoException
  /\ outcomes' = <<>>
  /\ waits' = <<>>
  /\ UNCHANGED <<max_retries, base_delay, max_delay, exponential_base, jitter>>
  /\ UNCHANGED notRtVars

\* Mutant: the last retry is not preceded by a sleep.
MoreAttemptsShort == attempt < max_retries - 1

\* if attempt < max_retries:
MoreAttempts == attempt < max_retries

\* return func(*args, **kwargs)
AttemptReturns(v) ==
  /\ outcomes' = Append(outcomes, [ok |-> TRUE, value |-> v, msg |-> <<>>])
  /\ result' = v
  /\ rpc' = "returned"
  /\ UNCHANGED <<attempt, last_exception, delay, raised>>

\* Mutant: last_exception keeps the first exception caught.
AttemptRaisesKeepsFirst(m) ==
  /\ outcomes' = Append(outcomes, [ok |-> FALSE, value |-> "none", msg |-> m])
  /\ last_exception' = IF last_exception = NoException
                          THEN [msg |-> m, attempt |-> attempt, kind |-> "func"]
                          ELSE last_exception
  /\ IF NonRetryable(m)
       THEN /\ raised' = [msg |-> m, attempt |-> attempt, kind |-> "func"]
            /\ rpc' = "raised"
            /\ UNCHANGED <<attempt, delay>>
       ELSE IF MoreAttempts
         THEN /\ \E q \in 0..(JitterSteps - 1) :
                   delay' = IF jitter THEN Jittered(Backoff(attempt), q)
                                      ELSE Unjittered(Backoff(attempt))
              /\ rpc' = "sleep"
              /\ UNCHANGED <<attempt, raised>>
         ELSE /\ attempt' = attempt + 1
              /\ UNCHANGED <<delay, raised, rpc>>
  /\ UNCHANGED result

\* except Exception as e: ...
AttemptRaises(m) ==
  /\ outcomes' = Append(outcomes, [ok |-> FALSE, value |-> "none", msg |-> m])
  /\ last_exception' = [msg |-> m, attempt |-> attempt, kind |-> "func"]
  /\ IF NonRetryable(m)
       THEN /\ raised' = last_exception'
            /\ rpc' = "raised"
            /\ UNCHANGED <<attempt, delay>>
       ELSE IF MoreAttempts
         THEN /\ \E q \in 0..(JitterSteps - 1) :
                   delay' = IF jitter THEN Jittered(Backoff(attempt), q)
                                      ELSE Unjittered(Backoff(attempt))
              /\ rpc' = "sleep"
              /\ UNCHANGED <<attempt, raised>>
         ELSE /\ attempt' = attempt + 1
              /\ UNCHANGED <<delay, raised, rpc>>
  /\ UNCHANGED result

\* One pass of "for attempt in range(max_retries + 1)": func is invoked.
RetryAttempt ==
  /\ rpc = "for"
  /\ attempt <= max_retries
  /\ \/ \E v \in Values : AttemptReturns(v)
     \/ \E m \in Messages : AttemptRaises(m)
  /\ UNCHANGED <<max_retries, base_delay, max_delay, exponential_base, jitter, waits>>
  /\ UNCHANGED notRtVars

\* time.sleep(delay), then the next pass of the loop
RetrySleep ==
  /\ rpc = "sleep"
  /\ waits' = Append(waits, delay)
  /\ attempt' = attempt + 1
  /\ rpc' = "for"
  /\ UNCHANGED <<max_retries, base_delay, max_delay, exponential_base, jitter,
                 last_exception, delay, result, raised, outcomes>>
  /\ UNCHANGED notRtVars

\* raise last_exception, after the loop
RetryExhausted ==
  /\ rpc = "for"
  /\ attempt > max_retries
  /\ raised' = IF last_exception = NoException THEN TypeErrorRaised ELSE last_exception
  /\ rpc' = "raised"
  /\ UNCHANGED <<max_retries, base_delay, max_delay, exponential_base, jitter,
                 attempt, last_exception, delay, result, outcomes, waits>>
  /\ UNCHANGED notRtVars

NextRetry == RetryCall \/ RetryAttempt \/ RetrySleep \/ RetryExhausted

(***************************************************************************)
(* CostTracker.  Token counts are integers; a cost is an exact multiple of *)
(* 1e-11 USD, the product of a token count and a rate in 1e-8 USD per 1000 *)
(* tokens, so that sums of costs do not depend on floating-point rounding. *)
(* A model name is a sequence of characters.                               *)
(***************************************************************************)

\* The token counts callers pass.
TokenCounts == {-1000, 1000}

\* A model argument that is not a str (None); it has no lower().
NoneModel == <<"None">>

\* The model arguments callers pass.
Models ==
  { <<"g", "e", "m", "i", "n", "i", "-", "2", ".", "5", "-", "f", "l", "a", "s", "h">>,
    <<"G", "e", "m", "i", "n", "i", "-", "2", ".", "5", "-", "P", "r", "o">>,
    <<"g", "e", "m", "i", "n", "i", "-", "p", "r", "o", "/", "g", "e", "m", "i", "n",
      "i", "-", "2", ".", "0", "-", "f", "l", "a", "s", "h">>,
    <<"g", "p", "t", "-", "4">>,
    NoneModel }

IsStr(m) == m # NoneModel

\* pricing, in the order of the dict; rates in 1e-8 USD per 1000 tokens
pricing ==
  << [key |-> <<"g", "e", "m", "i", "n", "i", "-", "2", ".", "5", "-", "f", "l", "a",
                "s", "h">>,
      input |-> 1875, output |-> 7500],
     [key |-> <<"g", "e", "m", "i", "n", "i", "-", "2", ".", "5", "-", "p", "r", "o">>,
      input |-> 12500, output |-> 62500],
     [key |-> <<"g", "e", "m", "i", "n", "i", "-", "2", ".", "0", "-", "f", "l", "a",
                "s", "h">>,
      input |-> 1875, output |-> 7500],
     [key |-> <<"g", "e", "m", "i", "n", "i", "-", "p", "r", "o">>,
      input |-> 50000, output |-> 150000] >>

\* for key in pricing.keys(): if key in self.model.lower()
MatchingKeys(model) ==
  {i \in 1..Len(pricing) : Contains(Lower(model), pricing[i].key)}

\* model_key: the first matching key (break), else "gemini-pro"
ModelKey(model) ==
  IF MatchingKeys(model) = {}
    THEN CHOOSE i \in 1..Len(pricing) : pricing[i].key = <<"g", "e", "m", "i", "n",
                                                           "i", "-", "p", "r", "o">>
    ELSE CHOOSE i \in MatchingKeys(model) : \A j \in MatchingKeys(model) : i <= j

\* TokenUsage.cost_estimate, for a record whose model is a str
cost_estimate(u) ==
  u.prompt_tokens * pricing[ModelKey(u.model)].input
    + u.completion_tokens * pricing[ModelKey(u.model)].output

\* TokenUsage(prompt_tokens=..., completion_tokens=..., total_tokens=..., model=...)
TokenUsage(p, c, m) ==
  [prompt_tokens |-> p, completion_tokens |-> c, total_tokens |-> p + c, model |-> m]

\* No response argument (add_usage, reset).
NoResponse == [usage_metadata |-> FALSE, counts |-> "none", prompt_token_count |-> 0,
               candidates_token_count |-> 0]

\* The response arguments of add_from_response: without usage_metadata; with a
\* usage_metadata that has no token-count attributes; with counts that are
\* None; with integer counts.
Responses ==
  { [usage_metadata |-> FALSE, counts |-> "absent", prompt_token_count |-> 0,
     candidates_token_count |-> 0],
    [usage_metadata |-> TRUE, counts |-> "absent", prompt_token_count |-> 0,
     candidates_token_count |-> 0],
    [usage_metadata |-> TRUE, counts |-> "None", prompt_token_count |-> 0,
     candidates_token_count |-> 0] }
  \cup { [usage_metadata |-> TRUE, counts |-> "int", prompt_token_count |-> p,
          candidates_token_count |-> c] : p \in TokenCounts, c \in TokenCounts }

\* CostTracker.__init__
InitTracker ==
  /\ usage_history = <<>>
  /\ _total_prompt_tokens = 0
  /\ _total_completion_tokens = 0
  /\ _total_cost = 0
  /\ op = [name |-> "__init__", ret |-> "None", response |-> NoResponse]

\* Mutant: the record is inserted at the front of usage_history.
RecordedInFront(p, c, m) ==
  /\ usage_history' = <<TokenUsage(p, c, m)>> \o usage_history
  /\ _total_prompt_tokens' = _total_prompt_tokens + p
  /\ _total_completion_tokens' = _total_completion_tokens + c
  /\ _total_cost' = IF IsStr(m) THEN _total_cost + cost_estimate(TokenUsage(p, c, m))
                                ELSE _total_cost

\* The body of add_usage.  usage.cost_estimate raises AttributeError at
\* self.model.lower() when model is not a str: by then the record is appended
\* and the token totals are updated, and _total_cost is not.
Recorded(p, c, m) ==
  /\ usage_history' = Append(usage_history, TokenUsage(p, c, m))
  /\ _total_prompt_tokens' = _total_prompt_tokens + p
  /\ _total_completion_tokens' = _total_completion_tokens + c
  /\ _total_cost' = IF IsStr(m) THEN _total_cost + cost_estimate(TokenUsage(p, c, m))
                                ELSE _total_cost

\* add_usage(prompt_tokens, completion_tokens, model)
AddUsage(p, c, m) ==
  /\ Len(usage_history) < MaxRecords
  /\ Recorded(p, c, m)
  /\ op' = [name |-> "add_usage",
            ret |-> IF IsStr(m) THEN "TokenUsage" ELSE "AttributeError",
            response |-> NoResponse, usage |-> TokenUsage(p, c, m)]
  /\ UNCHANGED notCtVars

\* The response carries usage_metadata with integer token counts.
HasUsage(r) == r.usage_metadata /\ r.counts = "int"

\* Mutant: a usage_metadata without token counts is recorded as a request of
\* zero tokens.
AddFromResponseDefaultsZero(r, m) ==
  /\ Len(usage_history) < MaxRecords
  /\ IF r.usage_metadata
       THEN Recorded(r.prompt_token_count, r.candidates_token_count, m)
       ELSE UNCHANGED <<usage_history, _total_prompt_tokens,
                        _total_completion_tokens, _total_cost>>
  /\ op' = [name |-> "add_from_response",
            ret |-> IF r.usage_metadata /\ IsStr(m) THEN "TokenUsage" ELSE "None",
            response |-> r]
  /\ UNCHANGED notCtVars

\* add_from_response(response, model): without usage_metadata it returns None
\* (line 137); metadata.prompt_token_count of a metadata without the attribute
\* raises AttributeError, and None + None in add_usage's line 104 raises
\* TypeError, both before anything is stored, and both caught at line 139; an
\* exception of add_usage itself is caught there as well.
AddFromResponse(r, m) ==
  /\ Len(usage_history) < MaxRecords
  /\ IF HasUsage(r)
       THEN Recorded(r.prompt_token_count, r.candidates_token_count, m)
       ELSE UNCHANGED <<usage_history, _total_prompt_tokens,
                        _total_completion_tokens, _total_cost>>
  /\ op' = [name |-> "add_from_response",
            ret |-> IF HasUsage(r) /\ IsStr(m) THEN "TokenUsage" ELSE "None",
            response |-> r]
  /\ UNCHANGED notCtVars

\* Mutant: reset leaves _total_cost as it is.
ResetKeepsCost ==
  /\ usage_history' = <<>>
  /\ _total_prompt_tokens' = 0
  /\ _total_completion_tokens' = 0
  /\ op' = [name |-> "reset", ret |-> "None", response |-> NoResponse,
            cleared |-> Len(usage_history)]
  /\ UNCHANGED _total_cost
  /\ UNCHANGED notCtVars

\* Mutant: reset clears the history and keeps the totals.
ResetKeepsTotals ==
  /\ usage_history' = <<>>
  /\ op' = [name |-> "reset", ret |-> "None", response |-> NoResponse,
            cleared |-> Len(usage_history)]
  /\ UNCHANGED <<_total_prompt_tokens, _total_completion_tokens, _total_cost>>
  /\ UNCHANGED notCtVars

\* reset()
Reset ==
  /\ usage_history' = <<>>
  /\ _total_prompt_tokens' = 0
  /\ _total_completion_tokens' = 0
  /\ _total_cost' = 0
  /\ op' = [name |-> "reset", ret |-> "None", response |-> NoResponse,
            cleared |-> Len(usage_history)]
  /\ UNCHANGED notCtVars

\* The number of cost units in 0.0001 USD, the unit of round(x, 4).
Round4Unit == 10000000

\* The number of units of round(x, 2) in 1.
Round2Scale == 100

\* round(n / d, digits), as the multiple q of 10^-digits: the nearest one, the
\* even one of two equally near.
RoundDiv(n, d) ==
  LET q == n \div d
      r == n % d
  IN IF 2 * r < d THEN q
     ELSE IF 2 * r > d THEN q + 1
     ELSE IF q % 2 = 0 THEN q ELSE q + 1

\* request_count
request_count == Len(usage_history)

\* total_tokens
total_tokens == _total_prompt_tokens + _total_completion_tokens

\* Mutant: the cost is cut to 4 decimal places, not rounded.
GetSummaryTruncates ==
  [total_requests |-> request_count,
   total_tokens |-> total_tokens,
   prompt_tokens |-> _total_prompt_tokens,
   completion_tokens |-> _total_completion_tokens,
   estimated_cost_usd |-> _total_cost \div Round4Unit,
   average_tokens_per_request |->
     IF request_count > 0 THEN RoundDiv(total_tokens * Round2Scale, request_count)
                          ELSE 0,
   average_cost_per_request |->
     IF request_count > 0 THEN RoundDiv(_total_cost, request_count * Round4Unit)
                          ELSE 0]

\* get_summary(): estimated_cost_usd and average_cost_per_request in units of
\* 0.0001 USD, average_tokens_per_request in hundredths of a token
GetSummary ==
  [total_requests |-> request_count,
   total_tokens |-> total_tokens,
   prompt_tokens |-> _total_prompt_tokens,
   completion_tokens |-> _total_completion_tokens,
   estimated_cost_usd |-> RoundDiv(_total_cost, Round4Unit),
   average_tokens_per_request |->
     IF request_count > 0 THEN RoundDiv(total_tokens * Round2Scale, request_count)
                          ELSE 0,
   average_cost_per_request |->
     IF request_count > 0 THEN RoundDiv(_total_cost, request_count * Round4Unit)
                          ELSE 0]

\* The models of the records of h, the keys of model_costs.
ModelsOf(h) == {h[i].model : i \in 1..Len(h)}

RECURSIVE ModelCostsLast(_)
\* Mutant: model_costs[model] = cost, without the earlier value.
ModelCostsLast(h) ==
  IF h = <<>> THEN [k \in {} |-> 0]
  ELSE LET before == ModelCostsLast(SubSeq(h, 1, Len(h) - 1))
           usage == h[Len(h)]
       IN [k \in DOMAIN before \cup {usage.model} |->
             IF k = usage.model THEN cost_estimate(usage) ELSE before[k]]

RECURSIVE ModelCosts(_)
\* model_costs after the loop over the records of h, in order:
\* model_costs[model] = model_costs.get(model, 0.0) + cost
ModelCosts(h) ==
  IF h = <<>> THEN [k \in {} |-> 0]
  ELSE LET before == ModelCosts(SubSeq(h, 1, Len(h) - 1))
           usage == h[Len(h)]
       IN [k \in DOMAIN before \cup {usage.model} |->
             (IF k \in DOMAIN before THEN before[k] ELSE 0)
               + (IF k = usage.model THEN cost_estimate(usage) ELSE 0)]

\* The mapping get_cost_by_model() returns when every record's model is a str,
\* values in units of 0.0001 USD: {k: round(v, 4) for k, v in model_costs.items()}
GetCostByModel ==
  [k \in DOMAIN ModelCosts(usage_history) |->
     RoundDiv(ModelCosts(usage_history)[k], Round4Unit)]

\* Every record's model is a str; otherwise usage.cost_estimate raises
\* AttributeError in get_cost_by_model and in export_to_json.
AllModelsStr == \A i \in 1..Len(usage_history) : IsStr(usage_history[i].model)

\* get_cost_by_model()
GetCostByModelCall ==
  /\ op' = [name |-> "get_cost_by_model",
            ret |-> IF AllModelsStr THEN "dict" ELSE "AttributeError",
            response |-> NoResponse]
  /\ UNCHANGED <<usage_history, _total_prompt_tokens, _total_completion_tokens,
                 _total_cost>>
  /\ UNCHANGED notCtVars

\* The decimal digits of a natural number, as json.dump writes them.
DigitChars == <<"0", "1", "2", "3", "4", "5", "6", "7", "8", "9">>

DecimalBase == Len(DigitChars)

RECURSIVE Digits(_)
Digits(n) ==
  IF n < DecimalBase THEN <<DigitChars[n + 1]>>
  ELSE Digits(n \div DecimalBase) \o <<DigitChars[(n % DecimalBase) + 1]>>

\* Mutant: the sign of a number is not written.
DumpNumUnsigned(n) == IF n < 0 THEN Digits(-n) ELSE Digits(n)

\* json.dump of a number: an int, or a float that is n of the model's units,
\* written by repr, which float() reads back exactly.
DumpNum(n) == IF n < 0 THEN <<"-">> \o Digits(-n) ELSE Digits(n)

DigitValue(c) == (CHOOSE d \in 1..DecimalBase : DigitChars[d] = c) - 1

RECURSIVE LoadDigits(_)
LoadDigits(t) ==
  IF t = <<>> THEN 0
  ELSE LoadDigits(SubSeq(t, 1, Len(t) - 1)) * DecimalBase + DigitValue(t[Len(t)])

\* json.load of a number
LoadNum(t) == IF t[1] = "-" THEN 0 - LoadDigits(Tail(t)) ELSE LoadDigits(t)

\* The characters json.dump escapes with a backslash, of those a model name
\* of Models can hold.
Escaped == {"\"", "\\"}

RECURSIVE Escape(_)
Escape(t) ==
  IF t = <<>> THEN <<>>
  ELSE (IF t[1] \in Escaped THEN <<"\\", t[1]>> ELSE <<t[1]>>) \o Escape(Tail(t))

\* json.dump of a str
DumpStr(t) == <<"\"">> \o Escape(t) \o <<"\"">>

RECURSIVE Unescape(_)
Unescape(t) ==
  IF t = <<>> THEN <<>>
  ELSE IF t[1] = "\\" THEN <<t[2]>> \o Unescape(SubSeq(t, 3, Len(t)))
  ELSE <<t[1]>> \o Unescape(Tail(t))

\* json.load of a str
LoadStr(t) == Unescape(SubSeq(t, 2, Len(t) - 1))

\* json.dump of a dict of numbers, and json.load of it
DumpNums(d) == [k \in DOMAIN d |-> DumpNum(d[k])]

LoadNums(d) == [k \in DOMAIN d |-> LoadNum(d[k])]

\* The document export_to_json writes: data of lines 226-240 through
\* json.dump.  The timestamp of a record is not modelled.
Document ==
  [summary |-> DumpNums(GetSummary),
   model_costs |->
     [k \in {DumpStr(m) : m \in DOMAIN GetCostByModel} |->
        DumpNum(GetCostByModel[CHOOSE m \in DOMAIN GetCostByModel : DumpStr(m) = k])],
   usage_history |->
     [i \in 1..Len(usage_history) |->
        [model |-> DumpStr(usage_history[i].model),
         prompt_tokens |-> DumpNum(usage_history[i].prompt_tokens),
         completion_tokens |-> DumpNum(usage_history[i].completion_tokens),
         total_tokens |-> DumpNum(usage_history[i].total_tokens),
         cost_estimate |-> DumpNum(cost_estimate(usage_history[i]))]]]

\* json.load of the document
LoadDocument(doc) ==
  [summary |-> LoadNums(doc.summary),
   model_costs |->
     [m \in {LoadStr(k) : k \in DOMAIN doc.model_costs} |->
        LoadNum(doc.model_costs[CHOOSE k \in DOMAIN doc.model_costs : LoadStr(k) = m])],
   usage_history |->
     [i \in 1..Len(doc.usage_history) |->
        [model |-> LoadStr(doc.usage_history[i].model),
         prompt_tokens |-> LoadNum(doc.usage_history[i].prompt_tokens),
         completion_tokens |-> LoadNum(doc.usage_history[i].completion_tokens),
         total_tokens |-> LoadNum(doc.usage_history[i].total_tokens),
         cost_estimate |-> LoadNum(doc.usage_history[i].cost_estimate)]]]

\* export_to_json(filepath): data is built before the file is opened, so an
\* AttributeError of get_cost_by_model leaves no document.
ExportToJson ==
  /\ op' = IF AllModelsStr
             THEN [name |-> "export_to_json", ret |-> "None",
                   response |-> NoResponse, document |-> Document]
             ELSE [name |-> "export_to_json", ret |-> "AttributeError",
                   response |-> NoResponse]
  /\ UNCHANGED <<usage_history, _total_prompt_tokens, _total_completion_tokens,
                 _total_cost>>
  /\ UNCHANGED notCtVars

NextTracker ==
  \/ \E p \in TokenCounts, c \in TokenCounts, m \in Models : AddUsage(p, c, m)
  \/ \E r \in Responses, m \in Models : AddFromResponse(r, m)
  \/ Reset
  \/ GetCostByModelCall
  \/ ExportToJson

(***************************************************************************)
(* One CostTracker shared by threads (global_tracker), each calling        *)
(* add_usage once.  list.append is one step; "self.x += v" reads self.x,   *)
(* evaluates v and writes self.x, and another thread may run in between:   *)
(* add_usage holds no lock.                                                *)
(***************************************************************************)
Recorders == 1..NumRecorders

\* The models the threads pass: the names of Models that are a key of pricing up
\* to case, so that cost_estimate has a value.
RecorderModels ==
  {m \in Models : IsStr(m) /\ \E i \in 1..Len(pricing) : pricing[i].key = Lower(m)}

InitRecorders ==
  /\ rec_pc = [t \in Recorders |-> "append"]
  /\ rec_usage = [t \in Recorders |-> TokenUsage(0, 0, NoneModel)]
  /\ rec_loaded = [t \in Recorders |-> 0]

\* usage = TokenUsage(...); self.usage_history.append(usage).  The threads
\* record the same counts for the same model, those of the first to append.
RecordAppend(t, p, c, m) ==
  /\ rec_pc[t] = "append"
  /\ usage_history # <<>> => TokenUsage(p, c, m) = usage_history[1]
  /\ rec_usage' = [rec_usage EXCEPT ![t] = TokenUsage(p, c, m)]
  /\ usage_history' = Append(usage_history, TokenUsage(p, c, m))
  /\ rec_pc' = [rec_pc EXCEPT ![t] = "load_prompt"]
  /\ UNCHANGED <<_total_prompt_tokens, _total_completion_tokens, _total_cost,
                 op, rec_loaded>>
  /\ UNCHANGED <<cbVars, rtVars, hpVars, mbVars>>

\* the read of self._total_prompt_tokens, self._total_completion_tokens or
\* self._total_cost that begins a "+="
LoadTotal(t) ==
  /\ rec_pc[t] \in {"load_prompt", "load_completion", "load_cost"}
  /\ rec_loaded' = [rec_loaded EXCEPT ![t] =
       CASE rec_pc[t] = "load_prompt" -> _total_prompt_tokens
         [] rec_pc[t] = "load_completion" -> _total_completion_tokens
         [] rec_pc[t] = "load_cost" -> _total_cost]
  /\ rec_pc' = [rec_pc EXCEPT ![t] =
       CASE rec_pc[t] = "load_prompt" -> "store_prompt"
         [] rec_pc[t] = "load_completion" -> "store_completion"
         [] rec_pc[t] = "load_cost" -> "store_cost"]
  /\ UNCHANGED <<ctVars, rec_usage>>
  /\ UNCHANGED <<cbVars, rtVars, hpVars, mbVars>>

\* the write that ends a "+=": the value read plus the amount added (the value
\* read is then dead, and forgotten)
StoreTotal(t) ==
  /\ rec_pc[t] \in {"store_prompt", "store_completion", "store_cost"}
  /\ _total_prompt_tokens' =
       IF rec_pc[t] = "store_prompt"
         THEN rec_loaded[t] + rec_usage[t].prompt_tokens
         ELSE _total_prompt_tokens
  /\ _total_completion_tokens' =
       IF rec_pc[t] = "store_completion"
         THEN rec_loaded[t] + rec_usage[t].completion_tokens
         ELSE _total_completion_tokens
  /\ _total_cost' =
       IF rec_pc[t] = "store_cost"
         THEN rec_loaded[t] + cost_estimate(rec_usage[t])
         ELSE _total_cost
  /\ rec_pc' = [rec_pc EXCEPT ![t] =
       CASE rec_pc[t] = "store_prompt" -> "load_completion"
         [] rec_pc[t] = "store_completion" -> "load_cost"
         [] rec_pc[t] = "store_cost" -> "done"]
  /\ rec_loaded' = [rec_loaded EXCEPT ![t] = 0]
  /\ UNCHANGED <<usage_history, op, rec_usage>>
  /\ UNCHANGED <<cbVars, rtVars, hpVars, mbVars>>

NextRecorders ==
  \E t \in Recorders :
    \/ \E p \in TokenCounts, c \in TokenCounts, m \in RecorderModels :
         RecordAppend(t, p, c, m)
    \/ LoadTotal(t)
    \/ StoreTotal(t)

(***************************************************************************)
(* The CircuitBreaker instances of two calls of create_circuit_breaker,    *)
(* each decorating the functions of Funcs with the bound method it         *)
(* returns.  One caller at a time; a call of a wrapper is one step.        *)
(***************************************************************************)
Decorators == {"first", "second"}

Funcs == {"f", "g"}

\* breaker = CircuitBreaker(), in a call create_circuit_breaker(ft, to).
\* counted is history: the functions whose failures failure_count counts.
CircuitBreaker(ft, to) ==
  [failure_threshold |-> ft, timeout |-> to, failure_count |-> 0,
   last_failure_time |-> NoTime, state |-> "CLOSED", counted |-> {}]

InitDecoratorsWith(ft, to) ==
  breakers = [b \in Decorators |-> CircuitBreaker(ft[b], to[b])]

\* The two calls differ in failure_threshold and pass the same timeout.
InitDecorators ==
  \E ft \in [Decorators -> 1..MaxThreshold], to \in 0..MaxTimeout :
    InitDecoratorsWith(ft, [b \in Decorators |-> to])

NoDecorators ==
  InitDecoratorsWith([b \in Decorators |-> 1], [b \in Decorators |-> 0])

\* What func does when the wrapper invokes it.
FuncOutcomes == {"ok", "raised_match", "raised_other"}

\* CircuitBreaker.call's wrapper, from entry to exit: the instance br after a
\* call in which func, if invoked, does o, and how the call ended.
call_wrapper(br, f, o) ==
  LET rejected == br.state = "OPEN"
                    /\ ~(now - br.last_failure_time > br.timeout)
      admitted == IF br.state = "OPEN" THEN "HALF_OPEN" ELSE br.state
      count == br.failure_count + 1
  IN  IF rejected
        THEN [breaker |-> br, result |-> "circuit_open"]
      ELSE IF o = "ok"
        THEN [breaker |-> [br EXCEPT !.state = IF admitted = "HALF_OPEN"
                                                  THEN "CLOSED" ELSE admitted,
                                     !.failure_count = 0,
                                     !.counted = {}],
              result |-> "ok"]
      ELSE IF o = "raised_match"
        THEN [breaker |-> [br EXCEPT !.state = IF count >= br.failure_threshold
                                                  THEN "OPEN" ELSE admitted,
                                     !.failure_count = count,
                                     !.last_failure_time = now,
                                     !.counted = br.counted \cup {f}],
              result |-> "raised_match"]
      ELSE [breaker |-> [br EXCEPT !.state = admitted], result |-> "raised_other"]

\* Mutant: the state is the class's, one for all the instances.
WrapperCallAll(b, f, o) ==
  /\ o = "raised_match" =>
       breakers[b].failure_count <= breakers[b].failure_threshold
  /\ breakers' = [d \in Decorators |-> call_wrapper(breakers[d], f, o).breaker]
  /\ UNCHANGED <<cbVars, rtVars, ctVars, hpVars, ccVars>>

\* a call of the wrapper that the decorator of b made for f
WrapperCall(b, f, o) ==
  /\ o = "raised_match" =>
       breakers[b].failure_count <= breakers[b].failure_threshold
  /\ breakers' = [breakers EXCEPT ![b] = call_wrapper(breakers[b], f, o).breaker]
  /\ UNCHANGED <<cbVars, rtVars, ctVars, hpVars, ccVars>>

NextDecorated ==
  \/ \E b \in Decorators, f \in Funcs, o \in FuncOutcomes : WrapperCall(b, f, o)
  \/ Tick

(***************************************************************************)
(* The static helpers of error_handling.py: handle_safety_block,           *)
(* safe_generate, and the functions that are meant to make a retry         *)
(* decorator.  They keep no state; call records the last call.  A reason   *)
(* is a sequence of characters.                                            *)
(***************************************************************************)

\* None, where a str or an exception may stand.
NoneValue == <<"None">>

InitHelpers == call = [name |-> "none"]

\* No helper has been called yet; the helpers keep no state, and a behaviour of
\* the model holds one call.
NoCallYet == call.name = "none"

\* response.prompt_feedback: no such attribute; reading it raises an exception
\* other than AttributeError; a feedback without block_reason; a feedback with
\* a block_reason, given by its str().
Feedbacks ==
  { [kind |-> "absent", has_block_reason |-> FALSE, block_reason |-> <<>>],
    [kind |-> "raises", has_block_reason |-> FALSE, block_reason |-> <<>>],
    [kind |-> "present", has_block_reason |-> FALSE, block_reason |-> <<>>],
    [kind |-> "present", has_block_reason |-> TRUE,
     block_reason |-> <<"O", "T", "H", "E", "R">>],
    [kind |-> "present", has_block_reason |-> TRUE,
     block_reason |-> <<"N", "o", "n", "e">>] }

\* candidate.finish_reason: "absent" when the candidate has no such attribute.
FinishReasons == {"absent", "SAFETY", "BLOCKED", "STOP", "safety"}

\* A candidate; safety_ratings is the str() of the attribute.
Candidates ==
  { [finish_reason |-> f, has_safety_ratings |-> FALSE, safety_ratings |-> <<>>] :
      f \in FinishReasons }
  \cup { [finish_reason |-> f, has_safety_ratings |-> TRUE,
          safety_ratings |-> <<"[", "H", "I", "G", "H", "]">>] : f \in FinishReasons }

\* The sequences of at most n candidates.
CandidateSeqs(n) == UNION {[1..k -> Candidates] : k \in 0..n}

\* response.candidates: no such attribute; reading or indexing it raises an
\* exception other than AttributeError; a list of candidates.
CandidateLists ==
  { [kind |-> "absent", list |-> <<>>], [kind |-> "raises", list |-> <<>>] }
  \cup { [kind |-> "list", list |-> l] : l \in CandidateSeqs(MaxCandidates) }

\* getattr(candidate, 'safety_ratings', []) in the f-string
RatingsText(candidate) ==
  IF candidate.has_safety_ratings THEN candidate.safety_ratings ELSE <<"[", "]">>

\* Lines 150-157 for a non-empty list of candidates l.
FirstCandidateBlocked(l) ==
  IF l[1].finish_reason \in {"SAFETY", "BLOCKED"}
    THEN [is_blocked |-> TRUE,
          reason |-> <<"C", "o", "n", "t", "e", "n", "t", " ", "b", "l", "o", "c",
                       "k", "e", "d", ".", " ", "S", "a", "f", "e", "t", "y", " ", "r",
                       "a", "t", "i", "n", "g", "s", ":", " ">>
                       \o RatingsText(l[1])]
    ELSE [is_blocked |-> FALSE, reason |-> NoneValue]

\* Mutant: an exception raised while the candidates are probed is answered
\* as a block.
ProbeFailedBlocks == [is_blocked |-> TRUE, reason |-> NoneValue]

\* except Exception: return False, None
ProbeFailed == [is_blocked |-> FALSE, reason |-> NoneValue]

\* Mutant: the candidates are consulted before prompt_feedback.
handle_safety_block_candidates_first(response) ==
  IF response.candidates.kind = "raises" \/ response.prompt_feedback.kind = "raises"
    THEN ProbeFailed
  ELSE IF response.candidates.kind = "list" /\ response.candidates.list # <<>>
          /\ FirstCandidateBlocked(response.candidates.list).is_blocked
    THEN FirstCandidateBlocked(response.candidates.list)
  ELSE IF response.prompt_feedback.kind = "present"
          /\ response.prompt_feedback.has_block_reason
    THEN [is_blocked |-> TRUE,
          reason |-> <<"B", "l", "o", "c", "k", "e", "d", ":", " ">>
                       \o response.prompt_feedback.block_reason]
  ELSE [is_blocked |-> FALSE, reason |-> NoneValue]

\* handle_safety_block(response), the pair it returns
handle_safety_block(response) ==
  IF response.prompt_feedback.kind = "raises" THEN ProbeFailed
  ELSE IF response.prompt_feedback.kind = "present"
          /\ response.prompt_feedback.has_block_reason
    THEN [is_blocked |-> TRUE,
          reason |-> <<"B", "l", "o", "c", "k", "e", "d", ":", " ">>
                       \o response.prompt_feedback.block_reason]
  ELSE IF response.candidates.kind = "raises" THEN ProbeFailed
  ELSE IF response.candidates.kind = "list" /\ response.candidates.list # <<>>
    THEN FirstCandidateBlocked(response.candidates.list)
  ELSE [is_blocked |-> FALSE, reason |-> NoneValue]

HandleSafetyBlock(response) ==
  /\ NoCallYet
  /\ call' = [name |-> "handle_safety_block", response |-> response,
              raised |-> FALSE, ret |-> handle_safety_block(response)]
  /\ UNCHANGED notHpVars

\* What generate_func() does: it returns a str or None, or raises.
GenerateOutcomes ==
  { [raises |-> FALSE, value |-> <<"t", "e", "x", "t">>],
    [raises |-> FALSE, value |-> NoneValue],
    [raises |-> TRUE, value |-> <<"5", "0", "3">>] }

\* fallback_response: not supplied (None), the empty str, a str.
Fallbacks == {NoneValue, <<>>, <<"s", "o", "r", "r", "y">>}

\* if fallback_response: the truth value of an Optional[str]
Truthy(x) == x # NoneValue /\ x # <<>>

\* safe_generate(generate_func, fallback_response, log_errors), the pair it
\* returns; the error is the exception, given by its message
safe_generate(outcome, fallback_response, log_errors) ==
  IF ~outcome.raises THEN <<outcome.value, NoneValue>>
  ELSE IF Truthy(fallback_response) THEN <<fallback_response, outcome.value>>
  ELSE <<NoneValue, outcome.value>>

SafeGenerate(outcome, fallback_response, log_errors) ==
  /\ NoCallYet
  /\ call' = [name |-> "safe_generate", outcome |-> outcome,
              fallback_response |-> fallback_response, log_errors |-> log_errors,
              raised |-> FALSE,
              ret |-> safe_generate(outcome, fallback_response, log_errors)]
  /\ UNCHANGED notHpVars

\* Defaults and arguments of the decorator factories, in seconds.
DefaultBaseDelay == 1
DefaultMaxDelay == 60
RateLimitBaseDelay == 2
RateLimitMaxDelay == 120
ServerErrorBaseDelay == 1
ServerErrorMaxDelay == 30

\* A call of retry_with_exponential_backoff: func is its first parameter and
\* has no default, so a call that does not pass it raises TypeError when the
\* arguments are bound; a call that passes it returns wrapper, the retry
\* wrapper of func with the configuration.
retry_with_exponential_backoff(func_given, mr, bd, md) ==
  IF func_given
    THEN [ret |-> "wrapper", max_retries |-> mr, base_delay |-> bd, max_delay |-> md]
    ELSE [ret |-> "TypeError"]

\* retry_on_rate_limit(max_retries=n)
RetryOnRateLimit(n) ==
  /\ NoCallYet
  /\ call' = [name |-> "retry_on_rate_limit", max_retries |-> n,
              made |-> retry_with_exponential_backoff(FALSE, n, RateLimitBaseDelay,
                                                      RateLimitMaxDelay)]
  /\ UNCHANGED notHpVars

\* retry_on_server_error(max_retries=n)
RetryOnServerError(n) ==
  /\ NoCallYet
  /\ call' = [name |-> "retry_on_server_error", max_retries |-> n,
              made |-> retry_with_exponential_backoff(FALSE, n, ServerErrorBaseDelay,
                                                      ServerErrorMaxDelay)]
  /\ UNCHANGED notHpVars

\* GeminiErrorHandler.retry_with_exponential_backoff(max_retries=n), the
\* keyword-only use of the examples: @retry_with_exponential_backoff(...)
RetryKeywordsOnly(n) ==
  /\ NoCallYet
  /\ call' = [name |-> "retry_with_exponential_backoff(**config)", max_retries |-> n,
              made |-> retry_with_exponential_backoff(FALSE, n, DefaultBaseDelay,
                                                      DefaultMaxDelay)]
  /\ UNCHANGED notHpVars

\* GeminiErrorHandler.retry_with_exponential_backoff(func, max_retries=n)
RetryDecorate(n) ==
  /\ NoCallYet
  /\ call' = [name |-> "retry_with_exponential_backoff(func, **config)",
              max_retries |-> n,
              made |-> retry_with_exponential_backoff(TRUE, n, DefaultBaseDelay,
                                                      DefaultMaxDelay)]
  /\ UNCHANGED notHpVars

NextHelpers ==
  \/ \E f \in Feedbacks, c \in CandidateLists :
       HandleSafetyBlock([prompt_feedback |-> f, candidates |-> c])
  \/ \E o \in GenerateOutcomes, fb \in Fallbacks, l \in BOOLEAN : SafeGenerate(o, fb, l)
  \/ \E n \in 0..MaxRetries : RetryOnRateLimit(n)
  \/ \E n \in 0..MaxRetries : RetryOnServerError(n)
  \/ \E n \in 0..MaxRetries : RetryKeywordsOnly(n)
  \/ \E n \in 0..MaxRetries : RetryDecorate(n)

Step(t) ==
  \/ CallEnter(t)
  \/ CallInvoke(t)
  \/ SuccessCheck(t)
  \/ SuccessClose(t)
  \/ SuccessReset(t)
  \/ ExceptLoad(t)
  \/ ExceptStore(t)
  \/ ExceptTime(t)
  \/ ExceptCheck(t)
  \/ ExceptOpen(t)

\* The breaker under check, the retry wrapper not in use.
Init ==
  /\ InitBreaker /\ InitRetryWith(0, 1, 1, ExpDen, FALSE) /\ InitTracker
  /\ InitHelpers /\ InitRecorders /\ NoDecorators

\* One caller at a time.
Next == (\E t \in SeqCallers : Step(t)) \/ Tick

Spec == Init /\ [][Next]_vars

\* time.time() keeps advancing.  Only time.time() - self.last_failure_time is
\* read (line 190), so once now is MaxTime the clock is moved on by moving
\* last_failure_time back; the difference stops growing at MaxTime, which is
\* above every timeout.
TickOn ==
  /\ IF now < MaxTime
       THEN now' = now + 1 /\ UNCHANGED last_failure_time
       ELSE now' = now /\ last_failure_time' =
                            IF last_failure_time > 0 THEN last_failure_time - 1
                                                     ELSE last_failure_time
  /\ UNCHANGED <<failure_threshold, timeout, failure_count,
                 state, pc, loaded, pre, ran, raisedAt, res, sinceOk, streak>>
  /\ UNCHANGED notCbVars

NextLive == (\E t \in SeqCallers : Step(t)) \/ TickOn

\* One caller at a time; time keeps advancing, calls keep arriving and every
\* call that has begun runs to its end.
SpecLive ==
  /\ Init
  /\ [][NextLive]_vars
  /\ WF_vars(TickOn)
  /\ WF_vars(\E t \in SeqCallers : Step(t))

\* Callers share the breaker concurrently, each making one call: a caller's steps
\* interleave with the others' at every statement of wrapper.
ConcStep(t) ==
  \/ (res[t] = "none" /\ CallEnter(t))
  \/ CallInvoke(t)
  \/ SuccessCheck(t)
  \/ SuccessClose(t)
  \/ SuccessReset(t)
  \/ ExceptLoad(t)
  \/ ExceptStore(t)
  \/ ExceptTime(t)
  \/ ExceptCheck(t)
  \/ ExceptOpen(t)

NextConc == (\E t \in Callers : ConcStep(t)) \/ Tick

SpecConc == Init /\ [][NextConc]_vars

\* The retry wrapper under check, the breaker not in use.
RetryInit ==
  /\ InitRetry /\ InitBreakerWith(1, 0) /\ InitTracker /\ InitHelpers
  /\ InitRecorders /\ NoDecorators

SpecRetry == RetryInit /\ [][NextRetry]_vars

\* The cost tracker under check, the breaker and the retry wrapper not in use.
TrackerInit ==
  /\ InitTracker /\ InitBreakerWith(1, 0) /\ InitRetryWith(0, 1, 1, ExpDen, FALSE)
  /\ InitHelpers /\ InitRecorders /\ NoDecorators

SpecTracker == TrackerInit /\ [][NextTracker]_vars

\* The static helpers under check, nothing else in use.
HelpersInit ==
  /\ InitHelpers /\ InitTracker /\ InitBreakerWith(1, 0)
  /\ InitRetryWith(0, 1, 1, ExpDen, FALSE) /\ InitRecorders /\ NoDecorators

SpecHelpers == HelpersInit /\ [][NextHelpers]_vars

(***************************************************************************)
(* The breaker around the retry wrapper: @circuit_breaker over             *)
(* @retry_with_exponential_backoff(...), so that the func the breaker      *)
(* invokes is the retry wrapper.  expected_exception is Exception, which   *)
(* every exception the retry wrapper lets out matches.                     *)
(***************************************************************************)

\* result = func(*args, **kwargs) begins: the retry wrapper is entered.
CompositeInvoke(t) ==
  /\ pc[t] = "invoke"
  /\ rpc = "idle"
  /\ failure_count < MaxFailures
  /\ RetryCall

\* Mutant: every failed attempt of the retry wrapper is a failure of the breaker.
CompositeReturnCountsAttempts(t) ==
  /\ pc[t] = "invoke"
  /\ rpc \in {"returned", "raised"}
  /\ rpc' = "idle"
  /\ ran' = [ran EXCEPT ![t] = TRUE]
  /\ failure_count' = failure_count + Cardinality({i \in 1..Len(outcomes) : ~outcomes[i].ok})
  /\ IF rpc = "returned"
       THEN /\ pc' = [pc EXCEPT ![t] = "ok_check"]
            /\ UNCHANGED raisedAt
       ELSE /\ pc' = [pc EXCEPT ![t] = "ex_load"]
            /\ raisedAt' = [raisedAt EXCEPT ![t] = now]
  /\ UNCHANGED <<failure_threshold, timeout, last_failure_time,
                 state, now, loaded, pre, res, sinceOk, streak>>
  /\ UNCHANGED <<max_retries, base_delay, max_delay, exponential_base, jitter,
                 attempt, last_exception, delay, result, raised, outcomes, waits>>
  /\ UNCHANGED <<ctVars, hpVars, ccVars, mbVars>>

\* result = func(*args, **kwargs) ends: the retry wrapper returned a value
\* (line 203 goes on) or let an exception out (line 210 catches it).
CompositeReturn(t) ==
  /\ pc[t] = "invoke"
  /\ rpc \in {"returned", "raised"}
  /\ rpc' = "idle"
  /\ ran' = [ran EXCEPT ![t] = TRUE]
  /\ IF rpc = "returned"
       THEN /\ pc' = [pc EXCEPT ![t] = "ok_check"]
            /\ UNCHANGED raisedAt
       ELSE /\ pc' = [pc EXCEPT ![t] = "ex_load"]
            /\ raisedAt' = [raisedAt EXCEPT ![t] = now]
  /\ UNCHANGED <<failure_threshold, timeout, failure_count, last_failure_time,
                 state, now, loaded, pre, res, sinceOk, streak>>
  /\ UNCHANGED <<max_retries, base_delay, max_delay, exponential_base, jitter,
                 attempt, last_exception, delay, result, raised, outcomes, waits>>
  /\ UNCHANGED <<ctVars, hpVars, ccVars, mbVars>>

\* What the wrapped operation raises here: a server error, which is retried,
\* and an authentication error, which is not.
CompositeMessages == {<<"5", "0", "3">>, <<"4", "0", "1">>}

\* An attempt of the retry wrapper inside the breaker's call.
CompositeAttempt ==
  /\ rpc = "for"
  /\ attempt <= max_retries
  /\ \/ \E v \in {"v1"} : AttemptReturns(v)
     \/ \E m \in CompositeMessages : AttemptRaises(m)
  /\ UNCHANGED <<max_retries, base_delay, max_delay, exponential_base, jitter, waits>>
  /\ UNCHANGED notRtVars

CompositeStep(t) ==
  \/ CallEnter(t)
  \/ CompositeInvoke(t)
  \/ CompositeReturn(t)
  \/ SuccessCheck(t)
  \/ SuccessClose(t)
  \/ SuccessReset(t)
  \/ ExceptLoad(t)
  \/ ExceptStore(t)
  \/ ExceptTime(t)
  \/ ExceptCheck(t)
  \/ ExceptOpen(t)

NextComposite ==
  \/ \E t \in SeqCallers : CompositeStep(t)
  \/ CompositeAttempt
  \/ RetrySleep
  \/ RetryExhausted
  \/ Tick

CompositeInit ==
  /\ InitBreaker
  /\ \E mr \in (-1)..MaxRetries : InitRetryWith(mr, 1, 1, ExpDen, FALSE)
  /\ InitTracker /\ InitHelpers /\ InitRecorders /\ NoDecorators

SpecComposite == CompositeInit /\ [][NextComposite]_vars

\* The breakers of two calls of create_circuit_breaker under check.
DecoratedInit ==
  /\ InitDecorators /\ InitBreakerWith(1, 0) /\ InitRetryWith(0, 1, 1, ExpDen, FALSE)
  /\ InitTracker /\ InitHelpers /\ InitRecorders

SpecDecorated == DecoratedInit /\ [][NextDecorated]_vars

\* The shared tracker under check, nothing else in use.
SpecRecorders == TrackerInit /\ [][NextRecorders]_vars

(***************************************************************************)
(* The claims about the circuit breaker.  Done(t): caller t's last call    *)
(* has ended, and pre[t], ran[t], raisedAt[t], res[t] describe it.         *)
(***************************************************************************)
Done(t) == pc[t] = "idle" /\ res[t] # "none"

\* time.time() - self.last_failure_time, as the call of caller t found it
ElapsedAtEntry(t) == pre[t].now - pre[t].last_failure_time

\* C1: from CLOSED with failure_count 0, after exactly failure_threshold
\* consecutive calls ended by a matching exception the state is OPEN (and it is
\* still CLOSED after fewer), and the next call, made before the timeout has
\* elapsed, raises the circuit-open error without invoking func.
C1_OpenAtThreshold ==
  \A t \in SeqCallers :
    /\ (Done(t) /\ streak = failure_threshold) => state = "OPEN"
    /\ (Done(t) /\ streak > 0 /\ streak < failure_threshold) => state = "CLOSED"
    /\ (pre[t].streak = failure_threshold /\ ElapsedAtEntry(t) < timeout)
         => (pc[t] = "idle" /\ res[t] = "circuit_open" /\ ~ran[t])

C1_Witness ==
  /\ Done(1) /\ res[1] = "circuit_open" /\ ~ran[1]
  /\ pre[1].streak = failure_threshold /\ failure_threshold = MaxThreshold
  /\ ElapsedAtEntry(1) < timeout
  /\ state = "OPEN"

\* C2: a call that arrives at an OPEN breaker after the timeout has elapsed moves
\* it to HALF_OPEN and invokes func; the state leaves OPEN only in such a step of
\* a call, never in a step of the clock.
C2_LazyHalfOpen ==
  /\ [](\A t \in SeqCallers :
          (pre[t].state = "OPEN" /\ ElapsedAtEntry(t) > timeout) =>
             /\ pre[t].admitted = "HALF_OPEN"
             /\ pc[t] = "invoke" => (state = "HALF_OPEN" /\ ~ran[t])
             /\ pc[t] # "invoke" => ran[t]
             /\ Done(t) => res[t] # "circuit_open")
  /\ [][(state = "OPEN" /\ state' # "OPEN") =>
          /\ state' = "HALF_OPEN"
          /\ now' = now
          /\ \E t \in SeqCallers :
               pc[t] = "idle" /\ pc'[t] = "invoke" /\ TimeoutElapsed]_vars

C2_Witness ==
  /\ pre[1].state = "OPEN" /\ ElapsedAtEntry(1) > timeout
  /\ pre[1].admitted = "HALF_OPEN" /\ ran[1] /\ Done(1)

\* C3: a call that arrives at an OPEN breaker when the elapsed time is at least
\* timeout, exactly timeout included, is admitted (HALF_OPEN) and not rejected.
C3_AdmittedAtTimeout ==
  \A t \in SeqCallers :
    (pre[t].state = "OPEN" /\ ElapsedAtEntry(t) >= timeout) =>
       (pre[t].admitted = "HALF_OPEN" /\ (Done(t) => res[t] # "circuit_open"))

\* C4: a success of func while the breaker is HALF_OPEN leaves the state CLOSED
\* and failure_count 0, whatever failure_count was.
C4_HalfOpenSuccessCloses ==
  \A t \in SeqCallers :
    (Done(t) /\ res[t] = "ok" /\ pre[t].admitted = "HALF_OPEN") =>
       (state = "CLOSED" /\ failure_count = 0)

C4_Witness ==
  /\ Done(1) /\ res[1] = "ok" /\ pre[1].admitted = "HALF_OPEN"
  /\ pre[1].failure_count > failure_threshold
  /\ state = "CLOSED" /\ failure_count = 0

\* C5: a matching failure of func while the breaker is HALF_OPEN leaves the state
\* OPEN, for every failure_threshold, and last_failure_time at the time of that
\* failure (not before func raised, not after the call ended).
C5_HalfOpenFailureReopens ==
  \A t \in SeqCallers :
    (Done(t) /\ res[t] = "raised_match" /\ pre[t].admitted = "HALF_OPEN") =>
       /\ state = "OPEN"
       /\ last_failure_time >= raisedAt[t]
       /\ last_failure_time <= now
       /\ (now - raisedAt[t] <= timeout => ~TimeoutElapsed)

C5_Witness ==
  /\ Done(1) /\ res[1] = "raised_match" /\ pre[1].admitted = "HALF_OPEN"
  /\ failure_threshold = MaxThreshold
  /\ last_failure_time > pre[1].last_failure_time
  /\ state = "OPEN"

\* C6: a call rejected at an OPEN breaker does not invoke func and leaves state,
\* failure_count and last_failure_time as they were, so the open window is not
\* extended; every call at an OPEN breaker whose timeout has not elapsed is
\* rejected.
C6_RejectionChangesNothing ==
  \A t \in SeqCallers :
    /\ (Done(t) /\ res[t] = "circuit_open") =>
         /\ ~ran[t]
         /\ pre[t].state = "OPEN"
         /\ state = pre[t].state
         /\ failure_count = pre[t].failure_count
         /\ last_failure_time = pre[t].last_failure_time
    /\ (pre[t].state = "OPEN" /\ ElapsedAtEntry(t) < timeout) =>
         (Done(t) /\ res[t] = "circuit_open")

C6_Witness ==
  /\ Done(1) /\ res[1] = "circuit_open" /\ ~ran[1]
  /\ pre[1].now > pre[1].last_failure_time
  /\ last_failure_time = pre[1].last_failure_time

\* C7: a success in CLOSED leaves failure_count 0, so that while fewer than
\* failure_threshold matching failures have occurred since the last success the
\* breaker is CLOSED and failure_count is their number.
C7_SuccessResetsCount ==
  \A t \in SeqCallers :
    /\ (Done(t) /\ res[t] = "ok" /\ pre[t].admitted = "CLOSED") =>
         (state = "CLOSED" /\ failure_count = 0)
    /\ (pc[t] = "idle" /\ sinceOk < failure_threshold) =>
         (state = "CLOSED" /\ failure_count = sinceOk)

\* Two matching failures with a success between them, failure_threshold 2.
C7_Witness ==
  /\ Done(1) /\ res[1] = "raised_match"
  /\ failure_threshold = 2
  /\ pre[1].state = "CLOSED" /\ pre[1].failure_count = 0
  /\ pre[1].last_failure_time # NoTime
  /\ state = "CLOSED" /\ failure_count = 1

\* C8 as stated: a call whose func raises an exception that does not match leaves
\* state, failure_count and last_failure_time as they were before the call.
C8_NonMatchingLeavesAll ==
  \A t \in SeqCallers :
    (Done(t) /\ res[t] = "raised_other") =>
       /\ state = pre[t].state
       /\ failure_count = pre[t].failure_count
       /\ last_failure_time = pre[t].last_failure_time

\* C8 as amended: such a call leaves failure_count and last_failure_time as they
\* were before the call and the state as it was when func was invoked: unchanged
\* for a call made in CLOSED or HALF_OPEN, HALF_OPEN for a call admitted from OPEN.
C8_NonMatchingLeavesCount ==
  \A t \in SeqCallers :
    (Done(t) /\ res[t] = "raised_other") =>
       /\ ran[t]
       /\ failure_count = pre[t].failure_count
       /\ last_failure_time = pre[t].last_failure_time
       /\ state = pre[t].admitted
       /\ pre[t].state # "OPEN" => state = pre[t].state
       /\ pre[t].state = "OPEN" => state = "HALF_OPEN"

C8_Witness ==
  /\ Done(1) /\ res[1] = "raised_other" /\ ran[1]
  /\ pre[1].state = "OPEN" /\ state = "HALF_OPEN"
  /\ failure_count = pre[1].failure_count

\* C9: with concurrent callers, once every call has ended failure_count is the
\* number of matching failures since the last success (no increment is lost),
\* and the breaker is not CLOSED when that number has reached failure_threshold.
C9_AtomicUpdates ==
  (\A t \in Callers : pc[t] = "idle") =>
     /\ failure_count = sinceOk
     /\ sinceOk >= failure_threshold => state # "CLOSED"

(***************************************************************************)
(* The claims about the retry wrapper.                                     *)
(***************************************************************************)
\* The invocations of func in the current (or last) call of wrapper.
Invocations == Len(outcomes)

\* C10: when func fails k times with retryable errors (0 <= k <= max_retries)
\* and then succeeds, wrapper returns the value of that success after exactly
\* k + 1 invocations and exactly k waits; wrapper does not give up while func
\* has failed at most max_retries times, each time with a retryable error.
C10_SuccessAfterKFailures ==
  /\ rpc = "returned" =>
       /\ Invocations >= 1
       /\ outcomes[Invocations].ok
       /\ result = outcomes[Invocations].value
       /\ \A i \in 1..(Invocations - 1) :
            ~outcomes[i].ok /\ ~NonRetryable(outcomes[i].msg)
       /\ Len(waits) = Invocations - 1
       /\ Invocations - 1 <= max_retries
  /\ (rpc = "raised" /\ Invocations >= 1) =>
       \/ NonRetryable(outcomes[Invocations].msg)
       \/ Invocations = max_retries + 1
  /\ (rpc = "for" /\ Invocations <= max_retries) =>
       (attempt = Invocations /\ Len(waits) = Invocations)

C10_Witness ==
  /\ rpc = "returned"
  /\ max_retries = MaxRetries
  /\ Invocations = MaxRetries + 1
  /\ Len(waits) = MaxRetries
  /\ result = "v2"

\* The messages of Messages that contain 'invalid api key', '401', '403' or
\* '404' when case is ignored, listed by hand.
MarkedMessages ==
  { <<"4", "0", "1">>,
    <<"H", "T", "T", "P", " ", "4", "0", "4">>,
    <<"I", "n", "v", "a", "l", "i", "d", " ", "A", "P", "I", " ", "K", "e", "y">>,
    <<"r", "e", "t", "r", "y", " ", "i", "n", " ", "4", "0", "3", "0", "m", "s">> }

\* C11: an attempt that fails with a message containing one of the markers is
\* the last invocation of the call: wrapper raises that error at once, no wait
\* follows it, on whichever attempt it occurs; when the first attempt fails so,
\* func has been invoked once and there has been no wait.
C11_NonRetryablePropagates ==
  /\ \A i \in 1..(Invocations - 1) : outcomes[i].msg \notin MarkedMessages
  /\ (Invocations >= 1 /\ outcomes[Invocations].msg \in MarkedMessages) =>
       /\ rpc = "raised"
       /\ raised = [msg |-> outcomes[Invocations].msg,
                    attempt |-> Invocations - 1, kind |-> "func"]
       /\ Len(waits) = Invocations - 1
       /\ Invocations - 1 <= max_retries
  /\ (Invocations >= 1 /\ outcomes[1].msg \in MarkedMessages) =>
       (Invocations = 1 /\ waits = <<>>)

\* A non-retryable error on the second attempt, in mixed case.
C11_Witness ==
  /\ rpc = "raised" /\ Invocations = 2 /\ Len(waits) = 1
  /\ max_retries = MaxRetries
  /\ outcomes[2].msg =
       <<"I", "n", "v", "a", "l", "i", "d", " ", "A", "P", "I", " ", "K", "e", "y">>

\* Every invocation of the current call failed with a retryable error.
AllRetryableFailures ==
  \A i \in 1..Invocations : ~outcomes[i].ok /\ outcomes[i].msg \notin MarkedMessages

\* C12: with max_retries >= 0, when func always fails with a retryable error,
\* wrapper raises after exactly max_retries + 1 invocations and max_retries
\* waits, and the error it raises is that of the final attempt.
C12_ExhaustedRaisesLast ==
  (max_retries >= 0 /\ AllRetryableFailures) =>
    /\ rpc # "returned"
    /\ Invocations <= max_retries + 1
    /\ rpc = "raised" =>
         /\ Invocations = max_retries + 1
         /\ Len(waits) = max_retries
         /\ raised = [msg |-> outcomes[Invocations].msg,
                      attempt |-> max_retries, kind |-> "func"]

\* The final attempt failed with another error than the first.
C12_Witness ==
  /\ rpc = "raised" /\ AllRetryableFailures
  /\ max_retries = MaxRetries /\ Invocations = MaxRetries + 1
  /\ Len(waits) = MaxRetries
  /\ outcomes[1].msg # outcomes[Invocations].msg
  /\ raised.msg = outcomes[Invocations].msg

\* waits[i] seconds equal min(base_delay * exponential_base^(i-1), max_delay):
\* both sides multiplied by ExpDen^(i-1) and by the units in a second.
WaitIsBackoff(i) ==
  waits[i] * Pow(ExpDen, i - 1) =
    Min(base_delay * Pow(exponential_base, i - 1), max_delay * Pow(ExpDen, i - 1))
      * DelayScale * 2 * JitterSteps

WaitsNonDecreasing ==
  \A i \in 1..Len(waits), j \in 1..Len(waits) : i <= j => waits[i] <= waits[j]

\* C13 as stated: with jitter disabled the wait after failed attempt i is
\* min(base_delay * exponential_base^i, max_delay), and the waits are
\* non-decreasing in i.
C13_BackoffMonotone ==
  ~jitter => ((\A i \in 1..Len(waits) : WaitIsBackoff(i)) /\ WaitsNonDecreasing)

\* C13 as amended: the waits are non-decreasing when exponential_base >= 1.
C13_BackoffMonotoneFromOne ==
  ~jitter =>
    /\ \A i \in 1..Len(waits) : WaitIsBackoff(i)
    /\ exponential_base >= ExpDen => WaitsNonDecreasing

\* Growing waits, the last one capped by max_delay.
C13_Witness ==
  /\ ~jitter /\ Len(waits) = MaxRetries
  /\ exponential_base > ExpDen
  /\ waits[1] < waits[Len(waits)]
  /\ waits[Len(waits)] = max_delay * DelayScale * 2 * JitterSteps

\* C14: no wait is longer than max_delay seconds, with or without jitter.
C14_WaitAtMostMaxDelay ==
  \A i \in 1..Len(waits) : waits[i] <= max_delay * DelayScale * 2 * JitterSteps

(***************************************************************************)
(* The claims about the cost tracker.                                      *)
(***************************************************************************)

RECURSIVE Sum(_, _)
\* The sum of f[x] over the x of S, in no particular order.
Sum(f, S) ==
  IF S = {} THEN 0
  ELSE LET x == CHOOSE y \in S : TRUE
       IN f[x] + Sum(f, S \ {x})

Records == 1..Len(usage_history)

\* Every record's cost_estimate has a value: its model is a str.
CostsDefined == \A i \in Records : IsStr(usage_history[i].model)

SumPromptTokens == Sum([i \in Records |-> usage_history[i].prompt_tokens], Records)

SumCompletionTokens ==
  Sum([i \in Records |-> usage_history[i].completion_tokens], Records)

SumCosts == Sum([i \in Records |-> cost_estimate(usage_history[i])], Records)

\* C15: after any sequence of add_usage, add_from_response and reset, the
\* running aggregates equal the fold over usage_history: the sums of
\* prompt_tokens, of completion_tokens and of cost_estimate over its records.
C15_AggregatesEqualFold ==
  /\ _total_prompt_tokens = SumPromptTokens
  /\ _total_completion_tokens = SumCompletionTokens
  /\ CostsDefined
  /\ _total_cost = SumCosts

LacksUsageFields(r) == ~r.usage_metadata \/ r.counts = "absent"

\* C17: add_from_response on a response that lacks usage fields returns None
\* and leaves usage_history and the three aggregates unchanged.
C17_LackingFieldsChangesNothing ==
  [][(op'.name = "add_from_response" /\ LacksUsageFields(op'.response)) =>
       /\ op'.ret = "None"
       /\ UNCHANGED <<usage_history, _total_prompt_tokens,
                      _total_completion_tokens, _total_cost>>]_vars

\* add_from_response returned None for a usage_metadata without token counts,
\* on a tracker that holds a record.
C17_Witness ==
  /\ op.name = "add_from_response" /\ op.ret = "None"
  /\ op.response.usage_metadata /\ op.response.counts = "absent"
  /\ Len(usage_history) = 1 /\ _total_cost > 0

\* C18: negative token counts are clamped to 0: no stored record has a
\* negative count, and no running total is negative.
C18_NegativeCountsClamped ==
  /\ \A i \in Records : /\ usage_history[i].prompt_tokens >= 0
                        /\ usage_history[i].completion_tokens >= 0
  /\ _total_prompt_tokens >= 0
  /\ _total_completion_tokens >= 0

\* C19: get_summary on a tracker with no records returns 0 for every total and
\* for both averages.
C19_EmptySummaryIsZero ==
  usage_history = <<>> =>
    GetSummary = [total_requests |-> 0, total_tokens |-> 0, prompt_tokens |-> 0,
                  completion_tokens |-> 0, estimated_cost_usd |-> 0,
                  average_tokens_per_request |-> 0, average_cost_per_request |-> 0]

\* The tracker has just been reset.
C19_Witness == op.name = "reset" /\ usage_history = <<>>

\* The rates of the first pricing key, in table order, contained in each model
\* name of Models when lower-cased, worked out by hand: input, output.
ExpectedRates(model) ==
  CASE model = <<"g", "e", "m", "i", "n", "i", "-", "2", ".", "5", "-", "f", "l",
                 "a", "s", "h">>
         -> <<1875, 7500>>
    [] model = <<"G", "e", "m", "i", "n", "i", "-", "2", ".", "5", "-", "P", "r", "o">>
         -> <<12500, 62500>>
    [] model = <<"g", "e", "m", "i", "n", "i", "-", "p", "r", "o", "/", "g", "e",
                 "m", "i", "n", "i", "-", "2", ".", "0", "-", "f", "l", "a", "s",
                 "h">>
         -> <<1875, 7500>>
    [] OTHER -> <<50000, 150000>>

\* C20: cost_estimate is (prompt_tokens/1000)*input_rate +
\* (completion_tokens/1000)*output_rate with the rates of the first pricing key,
\* in table order, contained in the lower-cased model name, 'gemini-pro' when
\* none is; the cost is never negative; 1000 and 1000 tokens of
\* 'gemini-2.5-flash' cost 0.00001875 + 0.000075 USD.
C20_CostEstimate ==
  \A i \in Records :
    LET u == usage_history[i]
    IN IsStr(u.model) =>
         /\ cost_estimate(u) = u.prompt_tokens * ExpectedRates(u.model)[1]
                                 + u.completion_tokens * ExpectedRates(u.model)[2]
         /\ cost_estimate(u) >= 0
         /\ u = TokenUsage(1000, 1000,
                  <<"g", "e", "m", "i", "n", "i", "-", "2", ".", "5", "-", "f", "l",
                    "a", "s", "h">>)
              => cost_estimate(u) = 1875000 + 7500000

\* The records of usage_history whose model is m.
RecordsOf(m) == {i \in Records : usage_history[i].model = m}

\* C21: get_cost_by_model returns a mapping whose keys are exactly the distinct
\* model strings of usage_history and whose value for model m is the sum of
\* cost_estimate over the records with model m rounded to 4 decimal places, a
\* multiple of 0.0001 USD at most half of 0.0001 USD away from the sum; the
\* call does not modify the tracker.
C21_CostByModel ==
  /\ [](CostsDefined =>
          /\ DOMAIN GetCostByModel = {usage_history[i].model : i \in Records}
          /\ \A m \in DOMAIN GetCostByModel :
               LET sum == Sum([i \in Records |-> cost_estimate(usage_history[i])],
                              RecordsOf(m))
               IN /\ 2 * (GetCostByModel[m] * Round4Unit - sum) <= Round4Unit
                  /\ 2 * (sum - GetCostByModel[m] * Round4Unit) <= Round4Unit)
  /\ [][op'.name = "get_cost_by_model" =>
          UNCHANGED <<usage_history, _total_prompt_tokens,
                      _total_completion_tokens, _total_cost>>]_vars

\* get_cost_by_model returned the sum of two records of one model.
C21_Witness ==
  /\ op.name = "get_cost_by_model" /\ op.ret = "dict"
  /\ Len(usage_history) = 2
  /\ usage_history[1].model = usage_history[2].model
  /\ cost_estimate(usage_history[1]) > 0 /\ cost_estimate(usage_history[2]) > 0
  /\ GetCostByModel[usage_history[1].model] > 0

RECURSIVE OnNewTracker(_)
\* The tracker a new CostTracker becomes by the add_usage calls that recorded
\* h, one after the other.
OnNewTracker(h) ==
  IF h = <<>>
    THEN [usage_history |-> <<>>, prompt |-> 0, completion |-> 0, cost |-> 0]
    ELSE LET t == OnNewTracker(SubSeq(h, 1, Len(h) - 1))
             u == h[Len(h)]
         IN [usage_history |-> Append(t.usage_history, u),
             prompt |-> t.prompt + u.prompt_tokens,
             completion |-> t.completion + u.completion_tokens,
             cost |-> IF IsStr(u.model) THEN t.cost + cost_estimate(u) ELSE t.cost]

\* C23: after reset the tracker is as a freshly constructed one: no records,
\* every aggregate 0; and the tracker, hence its summary, is what the add_usage
\* calls made since would have made of a new tracker.
C23_ResetIsFresh ==
  /\ op.name = "reset" =>
       /\ usage_history = <<>>
       /\ _total_prompt_tokens = 0
       /\ _total_completion_tokens = 0
       /\ _total_cost = 0
  /\ LET new == OnNewTracker(usage_history)
     IN /\ usage_history = new.usage_history
        /\ _total_prompt_tokens = new.prompt
        /\ _total_completion_tokens = new.completion
        /\ _total_cost = new.cost

\* reset has just cleared a full history.
C23_Witness == op.name = "reset" /\ op.cleared = MaxRecords /\ usage_history = <<>>

\* C24: usage_history is append-only between resets: a step that is not a
\* reset keeps every record at its position, and a successful add_usage adds
\* exactly one record, at the end, with total_tokens = prompt_tokens +
\* completion_tokens, and returns it; request_count grows by 1.
C24_AppendOnly ==
  [][/\ op'.name # "reset" =>
          /\ Len(usage_history') >= Len(usage_history)
          /\ SubSeq(usage_history', 1, Len(usage_history)) = usage_history
     /\ (op'.name = "add_usage" /\ op'.ret = "TokenUsage") =>
          /\ Len(usage_history') = Len(usage_history) + 1
          /\ usage_history' = Append(usage_history, op'.usage)
          /\ op'.usage.total_tokens
               = op'.usage.prompt_tokens + op'.usage.completion_tokens]_vars

\* add_usage returned a second record, different from the first.
C24_Witness ==
  /\ op.name = "add_usage" /\ op.ret = "TokenUsage"
  /\ Len(usage_history) = 2
  /\ usage_history[2] = op.usage
  /\ usage_history[1] # usage_history[2]

(***************************************************************************)
(* The claims about the static helpers.                                    *)
(***************************************************************************)

\* The response exposes prompt_feedback with a block_reason field.
RequestLevelBlock(response) ==
  response.prompt_feedback.kind = "present" /\ response.prompt_feedback.has_block_reason

\* The response has a first candidate, and its finish_reason is one of fs.
FirstFinishReasonIn(response, fs) ==
  /\ response.candidates.kind = "list"
  /\ response.candidates.list # <<>>
  /\ response.candidates.list[1].finish_reason \in fs

\* C25: for a response without request-level block indicator whose first
\* candidate has finish_reason 'SAFETY', handle_safety_block returns
\* (True, reason) with a reason that contains "SAFETY", whatever the
\* candidate's safety ratings, none included.
C25_SafetyReasonNamesSafety ==
  (/\ call.name = "handle_safety_block"
   /\ call.response.prompt_feedback.kind \in {"absent", "present"}
   /\ ~RequestLevelBlock(call.response)
   /\ FirstFinishReasonIn(call.response, {"SAFETY"})) =>
    /\ call.ret.is_blocked
    /\ Contains(call.ret.reason, <<"S", "A", "F", "E", "T", "Y">>)

\* C26: with a request-level block indicator the result is (True, "Blocked: "
\* and the block_reason), whatever the candidates are; otherwise the response
\* is blocked exactly when its first candidate's finish_reason is 'SAFETY' or
\* 'BLOCKED'.
C26_RequestLevelFirst ==
  call.name = "handle_safety_block" =>
    /\ RequestLevelBlock(call.response) =>
         call.ret = [is_blocked |-> TRUE,
                     reason |-> <<"B", "l", "o", "c", "k", "e", "d", ":", " ">>
                                  \o call.response.prompt_feedback.block_reason]
    /\ (~RequestLevelBlock(call.response)
        /\ call.response.prompt_feedback.kind # "raises") =>
         (call.ret.is_blocked
            <=> FirstFinishReasonIn(call.response, {"SAFETY", "BLOCKED"}))

\* A request-level block reported for a response whose first candidate has
\* finish_reason 'SAFETY'.
C26_Witness ==
  /\ call.name = "handle_safety_block"
  /\ RequestLevelBlock(call.response)
  /\ FirstFinishReasonIn(call.response, {"SAFETY"})
  /\ call.ret.is_blocked
  /\ call.ret.reason[1] = "B"

\* C27: handle_safety_block raises nothing; for a response with neither
\* feedback nor candidates, and when probing the response raises, it returns
\* (False, None).
C27_NeverRaises ==
  call.name = "handle_safety_block" =>
    /\ ~call.raised
    /\ (call.response.prompt_feedback.kind = "absent"
        /\ call.response.candidates.kind = "absent") =>
         call.ret = [is_blocked |-> FALSE, reason |-> NoneValue]
    /\ (\/ call.response.prompt_feedback.kind = "raises"
        \/ ~RequestLevelBlock(call.response)
             /\ call.response.candidates.kind = "raises") =>
         call.ret = [is_blocked |-> FALSE, reason |-> NoneValue]

\* Probing the candidates raised, after a feedback without block_reason.
C27_Witness ==
  /\ call.name = "handle_safety_block"
  /\ call.response.prompt_feedback.kind = "present"
  /\ ~call.response.prompt_feedback.has_block_reason
  /\ call.response.candidates.kind = "raises"
  /\ ~call.ret.is_blocked

\* C28: safe_generate raises nothing; when generate_func returns a result it
\* returns (result, None); when generate_func raises error it returns
\* (fallback_response, error) for every fallback_response that is not None,
\* and (None, error) without one.
C28_FallbackSubstituted ==
  call.name = "safe_generate" =>
    /\ ~call.raised
    /\ ~call.outcome.raises => call.ret = <<call.outcome.value, NoneValue>>
    /\ call.outcome.raises =>
         call.ret = <<call.fallback_response, call.outcome.value>>

\* C29: of the pair safe_generate returns, the response or the error is None.
C29_OneIsNone ==
  call.name = "safe_generate" =>
    (call.ret[1] = NoneValue \/ call.ret[2] = NoneValue)

\* C30: retry_on_rate_limit(max_retries=n), retry_on_server_error(max_retries=n)
\* and retry_with_exponential_backoff called with keywords only return a
\* decorator that makes the retry wrapper with max_retries = n and the delays
\* of the function called.
C30_FactoriesReturnDecorator ==
  /\ call.name = "retry_on_rate_limit" =>
       /\ call.made.ret \in {"decorator", "wrapper"}
       /\ call.made.max_retries = call.max_retries
       /\ call.made.base_delay = RateLimitBaseDelay
       /\ call.made.max_delay = RateLimitMaxDelay
  /\ call.name = "retry_on_server_error" =>
       /\ call.made.ret \in {"decorator", "wrapper"}
       /\ call.made.max_retries = call.max_retries
       /\ call.made.base_delay = ServerErrorBaseDelay
       /\ call.made.max_delay = ServerErrorMaxDelay
  /\ call.name = "retry_with_exponential_backoff(**config)" =>
       /\ call.made.ret \in {"decorator", "wrapper"}
       /\ call.made.max_retries = call.max_retries

(***************************************************************************)
(* The breaker between calls, one caller at a time.                        *)
(***************************************************************************)
Quiescent == \A t \in Callers : pc[t] = "idle"

\* C33: with failure_threshold >= 1 and one caller at a time, between calls:
\* CLOSED implies failure_count < failure_threshold; OPEN implies
\* failure_count >= failure_threshold and last_failure_time set; the state is
\* one of CLOSED, OPEN, HALF_OPEN, and failure_count is never negative.
C33_StateInvariants ==
  /\ state \in {"CLOSED", "OPEN", "HALF_OPEN"}
  /\ failure_count >= 0
  /\ Quiescent =>
       /\ state = "CLOSED" => failure_count < failure_threshold
       /\ state = "OPEN" =>
            (failure_count >= failure_threshold /\ last_failure_time # NoTime)

C33_Witness ==
  /\ Quiescent
  /\ state = "OPEN"
  /\ failure_count > failure_threshold
  /\ last_failure_time # NoTime
  /\ failure_threshold > 1

\* C34: failure_count goes down only to 0 and only when a call that succeeded
\* ends; opening the circuit, a rejection and OPEN -> HALF_OPEN leave it as it
\* is; a failed HALF_OPEN probe leaves it one higher than it found it, above
\* failure_threshold.
C34_CountResetOnlyBySuccess ==
  /\ [][failure_count' < failure_count =>
          /\ failure_count' = 0
          /\ \E t \in Callers :
               pc[t] = "ok_reset" /\ pc'[t] = "idle" /\ res'[t] = "ok"]_vars
  /\ [][(state' # state /\ state' \in {"OPEN", "HALF_OPEN"}) =>
          failure_count' = failure_count]_vars
  /\ [][(\E t \in Callers : res'[t] = "circuit_open" /\ res[t] # "circuit_open")
          => failure_count' = failure_count]_vars
  /\ [](\A t \in SeqCallers :
          (Done(t) /\ pre[t].state = "OPEN" /\ pre[t].admitted = "HALF_OPEN"
             /\ res[t] = "raised_match") =>
            /\ failure_count = pre[t].failure_count + 1
            /\ failure_count > failure_threshold)

C34_Witness ==
  /\ Done(1)
  /\ pre[1].state = "OPEN"
  /\ pre[1].admitted = "HALF_OPEN"
  /\ res[1] = "raised_match"
  /\ failure_count = failure_threshold + 2

C39_WaitsAlternate ==
  /\ rpc \in {"returned", "raised"} =>
       /\ Len(waits) = Invocations - 1
       /\ Len(waits) <= max_retries
  /\ rpc = "sleep" => Len(waits) = Invocations - 1
  /\ (rpc = "for" /\ Invocations <= max_retries) => Len(waits) = Invocations
  /\ (rpc = "for" /\ Invocations > max_retries /\ Invocations >= 1) =>
       Len(waits) = Invocations - 1
  /\ \A i \in 1..Len(waits) :
       /\ i <= Invocations
       /\ ~outcomes[i].ok
       /\ ~NonRetryable(outcomes[i].msg)
       /\ i <= max_retries

\* C37: a call of add_from_response that returns None leaves usage_history
\* and the three aggregates exactly as they were.
C37_NoneIsAllOrNothing ==
  [][(op'.name = "add_from_response" /\ op'.ret = "None") =>
       UNCHANGED <<usage_history, _total_prompt_tokens,
                   _total_completion_tokens, _total_cost>>]_vars

\* func returns whenever it is invoked.
FuncSucceeds ==
  \A t \in Callers : pc[t] = "invoke" => pc'[t] \in {"invoke", "ok_check"}

\* C35: the breaker never locks out for good.  With time advancing and calls
\* arriving, an OPEN breaker eventually admits a call in HALF_OPEN and invokes
\* func; if func succeeds from some point on, the breaker eventually is CLOSED
\* and stays CLOSED.
C35_NeverLockedOut ==
  /\ (state = "OPEN") ~>
       (\E t \in SeqCallers : state = "HALF_OPEN" /\ pc[t] = "invoke")
  /\ \A t \in SeqCallers : (pc[t] = "invoke") ~> (pc[t] # "invoke" /\ ran[t])
  /\ (<>[][FuncSucceeds]_vars) => <>[](state = "CLOSED")

C35_Witness ==
  /\ Done(1)
  /\ pre[1].state = "OPEN"
  /\ pre[1].admitted = "HALF_OPEN"
  /\ res[1] = "ok"
  /\ state = "CLOSED"
  /\ failure_count = 0
  /\ now = MaxTime

\* C31: one CostTracker shared by concurrent recorders: when the add_usage
\* calls of all NumRecorders threads have completed, usage_history holds
\* NumRecorders records and each aggregate equals the fold over them, under
\* every interleaving.
C31_NoLostUpdate ==
  (\A t \in Recorders : rec_pc[t] = "done") =>
    /\ Len(usage_history) = NumRecorders
    /\ _total_prompt_tokens = SumPromptTokens
    /\ _total_completion_tokens = SumCompletionTokens
    /\ _total_cost = SumCosts

\* C38: the breaker state belongs to the call of create_circuit_breaker.  A
\* call through a decorator changes the instance of that decorator only,
\* whatever the other instance is doing; the functions one decorator wraps
\* share its instance: a failure of any of them adds one to its failure_count,
\* a success of any of them resets it, and the failures of different functions
\* together open it.
C38_StatePerFactoryCall ==
  /\ [][\E b \in Decorators :
          /\ \A d \in Decorators \ {b} : breakers'[d] = breakers[d]
          /\ breakers'[b].failure_count > breakers[b].failure_count =>
               /\ breakers'[b].failure_count = breakers[b].failure_count + 1
               /\ \E f \in Funcs :
                    breakers'[b].counted = breakers[b].counted \cup {f}
          /\ breakers'[b].failure_count < breakers[b].failure_count =>
               /\ breakers'[b].failure_count = 0
               /\ breakers'[b].counted = {}
               /\ breakers'[b].state = "CLOSED"]_vars
  /\ [](\A b \in Decorators :
          /\ breakers[b].failure_count >= Cardinality(breakers[b].counted)
          /\ breakers[b].failure_count = 0 <=> breakers[b].counted = {}
          /\ (breakers[b].state = "OPEN") =>
               breakers[b].failure_count >= breakers[b].failure_threshold
          /\ (breakers[b].state = "CLOSED") =>
               breakers[b].failure_count < breakers[b].failure_threshold)

C38_Witness ==
  /\ breakers["first"].state = "OPEN"
  /\ breakers["first"].failure_threshold = 2
  /\ breakers["first"].failure_count = 2
  /\ breakers["first"].counted = Funcs
  /\ breakers["second"].state = "CLOSED"
  /\ breakers["second"].failure_count = 1
  /\ breakers["second"].failure_threshold = 2
  /\ breakers["second"].last_failure_time > breakers["first"].last_failure_time

\* The failed attempts of the retry wrapper's last call.
FailedAttempts == Cardinality({i \in 1..Len(outcomes) : ~outcomes[i].ok})

\* C32: the breaker around the retry wrapper.  A composite call that fails
\* adds one to failure_count, however many inner attempts failed; a composite
\* call that succeeds, after inner retries or not, leaves failure_count 0; the
\* breaker opens only when failure_threshold composite calls have failed since
\* the last success; while the breaker is OPEN there is no inner attempt and no
\* wait.
C32_BreakerOverRetry ==
  /\ [](\A t \in SeqCallers :
          /\ (Done(t) /\ res[t] = "raised_match") =>
               failure_count = pre[t].failure_count + 1
          /\ (Done(t) /\ res[t] = "ok") => failure_count = 0
          /\ (Done(t) /\ res[t] = "circuit_open") =>
               failure_count = pre[t].failure_count)
  /\ [][failure_count' <= failure_count + 1]_vars
  /\ [][(state' = "OPEN" /\ state # "OPEN") => sinceOk' >= failure_threshold]_vars
  /\ [][(state = "OPEN" \/ state' = "OPEN") => UNCHANGED rtVars]_vars

C32_Witness ==
  /\ Done(1)
  /\ res[1] = "raised_match"
  /\ state = "OPEN"
  /\ failure_threshold = 2
  /\ failure_count = 2
  /\ max_retries = MaxRetries
  /\ FailedAttempts = MaxRetries + 1
  /\ Len(waits) = MaxRetries

=============================================================================
